---- MODULE Spec2Model ----
(***************************************************************************)
(* Model of the identity and session-issuance core of impala-bridge:       *)
(* POST /authenticate (handlers/authenticate.rs and the handler routed in  *)
(* main.rs), POST /token (handlers/token.rs), the Redis rate/lockout       *)
(* counters and the impala_auth credential table.                          *)
(*                                                                         *)
(* Every handler is an async fn.  A call is a process whose pc names the   *)
(* await it is suspended on; one action completes that await and runs the  *)
(* synchronous code up to the next await (or to the return).               *)
(***************************************************************************)
EXTENDS Integers, Sequences, FiniteSets, TLC

(* ------------------------------------------------------------------ *)
(* Program constants (constants.rs)                                    *)
(* ------------------------------------------------------------------ *)
MIN_PASSWORD_LENGTH == 8
REFRESH_TOKEN_TTL_SECS == 2592000
TEMPORAL_TOKEN_TTL_SECS == 3600
RATE_LIMIT_MAX_REQUESTS == 10
RATE_LIMIT_WINDOW_SECS == 60
LOCKOUT_THRESHOLD == 5
LOCKOUT_DURATION_SECS == 900
TOKEN_TYPE_REFRESH == "refresh"
TOKEN_TYPE_TEMPORAL == "temporal"

(* ------------------------------------------------------------------ *)
(* Bounds of the model                                                 *)
(* ------------------------------------------------------------------ *)
\* number of call slots (concurrent requests in flight)
NCalls == 2
\* wall-clock seconds at Init
StartTime == 3000000
\* seconds added by one Tick
TickSecs == 450
\* units of the underlying token held by s1 when the contract is deployed
TokenSupply == 1
\* number of Ticks in one behaviour
MaxTicks == 2
\* number of requests in one behaviour of Spec
MaxRequests == 3

Calls == 1..NCalls
MaxTime == StartTime + MaxTicks * TickSecs

(* ------------------------------------------------------------------ *)
(* Inputs                                                              *)
(* ------------------------------------------------------------------ *)
\* "acct" has a row in impala_account, "ghost" has none.
Accounts == {"acct", "ghost"}
impala_account == {"acct"}

\* A password is its text and its byte length (String::len).
Passwords ==
  { [text |-> "pw-alpha", len |-> 8],
    [text |-> "pw-bravo", len |-> 8],
    [text |-> "pw-shrt", len |-> 7] }
EmptyPassword == [text |-> "", len |-> 0]
NoPassword == [text |-> "<none>", len |-> 0]

(* ------------------------------------------------------------------ *)
(* password_auth                                                       *)
(* ------------------------------------------------------------------ *)
\* generate_hash: a self-describing digest of the password.
generate_hash(password) == [alg |-> "argon2id", digest_of |-> password.text]

\* verify_password: Ok iff the digest was produced from this password.
verify_password(password, stored_hash) == stored_hash.digest_of = password.text

(* ------------------------------------------------------------------ *)
(* Responses                                                           *)
(* ------------------------------------------------------------------ *)
NoResp == [kind |-> "none"]

AuthenticateResponse(success, message, action) ==
  [kind |-> "ok", success |-> success, message |-> message, action |-> action]

\* AppError variants (error.rs)
AppError(variant) == [kind |-> "err", error |-> variant]

\* bare StatusCode returned by the handlers of main.rs
StatusCode(code) == [kind |-> "status", code |-> code]

(* ------------------------------------------------------------------ *)
(* Redis keys and counters                                             *)
(* ------------------------------------------------------------------ *)
rate_key_auth(account_id) == <<"rate:auth", account_id>>
rate_key_token(username) == <<"rate:token", username>>
lockout_key(account_id) == <<"lockout", account_id>>

CacheKeys ==
  {rate_key_auth(a) : a \in Accounts} \cup {rate_key_token(a) : a \in Accounts}
    \cup {lockout_key(a) : a \in Accounts}

NoExpiry == 0 - 1
\* an absent key reads as count 0 (GET -> nil -> unwrap_or(0))
NoEntry == [count |-> 0, expireAt |-> NoExpiry]

(* ------------------------------------------------------------------ *)
(* MultisigAssetWrapper (impala-soroban): addresses and storage values *)
(* ------------------------------------------------------------------ *)
MAX_LOCK_DURATION == 31536000

Addresses == {"s1", "s2", "s3"}
\* the contract's own address, holder of the underlying token
CONTRACT == "contract"

\* instance storage before initialize: no MultisigConfig, no MinLockDuration
NoConfig == [signers |-> <<>>, threshold |-> 0]
NoDuration == 0 - 1
NoId == 0 - 1

\* the outcome of an invocation: Ok, or the message of the panic that reverted it
Ok == "ok"
HostUnwrap == "host: unwrap on a missing storage entry"
HostAuth == "host: require_auth failed"
HostToken == "host: token transfer failed"

\* an invocation and its outcome, with what it found: the configuration, the
\* pause flag, and of the timelock it names whether it was already executed
\* and whether its unlock_time was still ahead
\* requested is the configuration a rotate_signers asks for
Invocation(op, signers, id, result, config0, paused0, executed0, early0) ==
  [op |-> op, signers |-> signers, id |-> id, result |-> result,
   config0 |-> config0, paused0 |-> paused0, executed0 |-> executed0, early0 |-> early0,
   requested |-> NoConfig]
NoInvocation == Invocation("none", <<>>, NoId, Ok, NoConfig, FALSE, FALSE, FALSE)

VARIABLES
  now,          \* wall clock, seconds
  cache,        \* Redis: key -> [count, expireAt]
  cacheUp,      \* Redis reachable
  impala_auth,  \* credential table: account_id -> sequence of password_hash rows
  pc,           \* per call: the await the call is suspended on
  req,          \* per call: the request payload
  resp,         \* per call: the response returned
  obs,          \* per call: what happened during the call (history)
  regPw,        \* per account: password of the call that returned "registered"
  streak,       \* per account: recorded wrong-password outcomes since the last success or expiry
  admitted,     \* per rate key: calls admitted since the counter was created
  nreq,         \* requests received so far
  impala_mfa,   \* enrollment table: set of rows
  sms_store,    \* Redis: mfa:sms:{account_id}:sms -> code held for the account
  generated,    \* TOTP secrets generated so far
  smsUses,      \* per account: successful verifications of the challenge now or last held
  issued,       \* per account: codes ever stored as a challenge
  config,            \* contract storage: MultisigConfig
  paused,            \* contract storage: Paused
  balance,           \* contract storage: Balance(address)
  total_wrapped,     \* contract storage: WrappedAsset.total_wrapped
  min_lock_duration, \* contract storage: MinLockDuration
  timelocks,         \* contract storage: TimeLock(id), id = index - 1; NextTimeLockId = length
  token_balance,     \* the underlying token's balances
  timestamp,         \* env.ledger().timestamp()
  last,              \* the last invocation of the contract and its outcome
  history,           \* per timelock: when it was scheduled, how often and when it took effect
  ever_paused,       \* the contract has been paused at some time
  retired            \* signers that a rotation removed from the authorized set

\* the state of /authenticate and /token, and the state of /mfa
coreVars == <<now, cache, cacheUp, impala_auth, pc, req, resp, obs, regPw, streak, admitted, nreq>>
mfaVars == <<impala_mfa, sms_store, generated, smsUses, issued>>
\* what a reverted invocation leaves as it was, and the whole state of the contract model
storage == <<config, paused, balance, total_wrapped, min_lock_duration, timelocks, token_balance>>
wrapperVars == <<config, paused, balance, total_wrapped, min_lock_duration, timelocks,
                 token_balance, timestamp, last, history, ever_paused, retired>>
vars == <<now, cache, cacheUp, impala_auth, pc, req, resp, obs, regPw, streak, admitted, nreq,
          impala_mfa, sms_store, generated, smsUses, issued,
          config, paused, balance, total_wrapped, min_lock_duration, timelocks,
          token_balance, timestamp, last, history, ever_paused, retired>>

(* ------------------------------------------------------------------ *)
(* Redis commands (redis::AsyncCommands)                               *)
(* ------------------------------------------------------------------ *)
\* GET key, read as u64; nil or an error becomes 0 through unwrap_or(0)
CacheGet(key) == IF cacheUp THEN cache[key].count ELSE 0

\* INCR key: creates the key at 1 without a TTL, keeps the TTL of an existing key
CacheIncr(key) ==
  [cache EXCEPT ![key] = [count |-> @.count + 1, expireAt |-> @.expireAt]]

CacheExpire_Keeps_Running_Ttl(store, key, seconds) ==
  IF store[key].count > 0 /\ store[key].expireAt = NoExpiry
    THEN [store EXCEPT ![key] = [count |-> @.count, expireAt |-> now + seconds]]
    ELSE store

\* EXPIRE key seconds: (re)sets the TTL of an existing key
CacheExpire(store, key, seconds) ==
  IF store[key].count > 0
    THEN [store EXCEPT ![key] = [count |-> @.count, expireAt |-> now + seconds]]
    ELSE store

\* DEL key
CacheDel(key) == [cache EXCEPT ![key] = NoEntry]

\* keys whose TTL has run out at time t
ExpiredKeys(t) ==
  {k \in CacheKeys : cache[k].count > 0 /\ cache[k].expireAt # NoExpiry /\ cache[k].expireAt <= t}

(* ------------------------------------------------------------------ *)
(* The two threshold comparisons                                       *)
(* ------------------------------------------------------------------ *)
RateLimitExceeded_Off_By_One(count) == count > RATE_LIMIT_MAX_REQUESTS

\* authenticate.rs:32 and token.rs:104
RateLimitExceeded(count) == count >= RATE_LIMIT_MAX_REQUESTS

IsLockedOut_Off_By_One(failures) == failures > LOCKOUT_THRESHOLD

\* authenticate.rs:49
IsLockedOut(failures) == failures >= LOCKOUT_THRESHOLD

(* ------------------------------------------------------------------ *)
(* History kept per call                                               *)
(* ------------------------------------------------------------------ *)
NoAccount == "<none>"

NoObs ==
  [cacheFail |-> FALSE, cacheOk |-> FALSE, dbFail |-> FALSE, failedAt |-> "none",
   conflict |-> FALSE,
   expired |-> FALSE, cred0 |-> <<>>, regPw0 |-> NoPassword, rate0 |-> 0, lock0 |-> 0,
   streak0 |-> 0, admitted0 |-> 0, now0 |-> 0, mfa0 |-> {}, sms0 |-> [src |-> "", n |-> 0],
   secret |-> ""]

\* snapshot taken when a request for subject a on rate key rk arrives
StartObs(a, rk) ==
  [NoObs EXCEPT !.cred0 = impala_auth[a], !.regPw0 = regPw[a],
                !.rate0 = cache[rk].count, !.lock0 = cache[lockout_key(a)].count,
                !.streak0 = streak[a], !.admitted0 = admitted[rk], !.now0 = now]

\* the call's cache operation succeeded / failed
SawCache(c) == [obs EXCEPT ![c].cacheOk = @ \/ cacheUp, ![c].cacheFail = @ \/ ~cacheUp]

NoRequest ==
  [op |-> "none", account_id |-> NoAccount, username |-> NoAccount,
   password |-> NoPassword, refresh_token |-> [none |-> TRUE],
   mfa_type |-> "", code |-> [src |-> "", n |-> 0], phone_number |-> "",
   authorization |-> [none |-> TRUE]]

Idle(c) == pc[c] \in {"idle", "done"}

Return(c, response) ==
  /\ pc' = [pc EXCEPT ![c] = "done"]
  /\ resp' = [resp EXCEPT ![c] = response]

Goto(c, label) ==
  /\ pc' = [pc EXCEPT ![c] = label]
  /\ UNCHANGED resp

Init ==
  /\ now = StartTime
  /\ cache = [k \in CacheKeys |-> NoEntry]
  /\ cacheUp = TRUE
  /\ impala_auth = [a \in Accounts |-> <<>>]
  /\ pc = [c \in Calls |-> "idle"]
  /\ req = [c \in Calls |-> NoRequest]
  /\ resp = [c \in Calls |-> NoResp]
  /\ obs = [c \in Calls |-> NoObs]
  /\ regPw = [a \in Accounts |-> NoPassword]
  /\ streak = [a \in Accounts |-> 0]
  /\ admitted = [k \in CacheKeys |-> 0]
  /\ nreq = 0
  /\ impala_mfa = {}
  /\ sms_store = [a \in Accounts |-> [src |-> "<none>", n |-> 0]]
  /\ generated = {}
  /\ smsUses = [a \in Accounts |-> 0]
  /\ issued = [a \in Accounts |-> {}]
  /\ config = NoConfig
  /\ paused = FALSE
  /\ balance = [a \in Addresses |-> 0]
  /\ total_wrapped = 0
  /\ min_lock_duration = NoDuration
  /\ timelocks = <<>>
  /\ token_balance = [a \in Addresses \cup {CONTRACT} |-> IF a = "s1" THEN TokenSupply ELSE 0]
  /\ timestamp = 0
  /\ last = NoInvocation
  /\ history = <<>>
  /\ ever_paused = FALSE
  /\ retired = {}

(* ------------------------------------------------------------------ *)
(* POST /authenticate  (handlers/authenticate.rs)                      *)
(* ------------------------------------------------------------------ *)
LockedResponse ==
  AuthenticateResponse(FALSE, "Account temporarily locked due to too many failed attempts", "")
TooShortResponse == AuthenticateResponse(FALSE, "Password must be at least 8 characters", "")
InvalidCredentials == AuthenticateResponse(FALSE, "Invalid credentials", "")
Registered == AuthenticateResponse(TRUE, "Registration successful", "registered")
Authenticated == AuthenticateResponse(TRUE, "Authentication successful", "authenticated")
InternalError(msg) == [kind |-> "err", error |-> "InternalError", message |-> msg]
RateLimited == AppError("RateLimited")
Unauthorized == AppError("Unauthorized")

\* the request arrives; the handler suspends on get_async_connection (line 29)
AuthStart(c, account_id, password) ==
  /\ Idle(c)
  /\ req' = [req EXCEPT ![c] = [NoRequest EXCEPT !.op = "authenticate",
                                  !.account_id = account_id, !.password = password]]
  /\ obs' = [obs EXCEPT ![c] = StartObs(account_id, rate_key_auth(account_id))]
  /\ pc' = [pc EXCEPT ![c] = "auth_rate_conn"]
  /\ resp' = [resp EXCEPT ![c] = NoResp]
  /\ UNCHANGED <<now, cache, cacheUp, impala_auth, regPw, streak, admitted, mfaVars, wrapperVars>>

AuthRateConn_Fail_Closed(c) ==
  /\ pc[c] = "auth_rate_conn"
  /\ obs' = SawCache(c)
  /\ IF cacheUp THEN Goto(c, "auth_rate_get") ELSE Return(c, RateLimited)
  /\ UNCHANGED <<nreq, now, cache, cacheUp, impala_auth, req, regPw, streak, admitted, mfaVars, wrapperVars>>

\* line 29: no connection => the whole rate-limit block is skipped
AuthRateConn(c) ==
  /\ pc[c] = "auth_rate_conn"
  /\ obs' = SawCache(c)
  /\ Goto(c, IF cacheUp THEN "auth_rate_get" ELSE "auth_lock_conn")
  /\ UNCHANGED <<nreq, now, cache, cacheUp, impala_auth, req, regPw, streak, admitted, mfaVars, wrapperVars>>

AuthRateGet_Counts_Denied(c) ==
  /\ pc[c] = "auth_rate_get"
  /\ obs' = SawCache(c)
  /\ cache' = IF cacheUp THEN CacheIncr(rate_key_auth(req[c].account_id)) ELSE cache
  /\ IF RateLimitExceeded(CacheGet(rate_key_auth(req[c].account_id)))
       THEN Return(c, RateLimited)
       ELSE Goto(c, "auth_rate_expire")
  /\ UNCHANGED <<nreq, now, cacheUp, impala_auth, req, regPw, streak, admitted, mfaVars, wrapperVars>>

\* lines 31-38: GET rate:auth:{account_id}; at or above the maximum => RateLimited
AuthRateGet(c) ==
  /\ pc[c] = "auth_rate_get"
  /\ obs' = SawCache(c)
  /\ IF RateLimitExceeded(CacheGet(rate_key_auth(req[c].account_id)))
       THEN Return(c, RateLimited)
       ELSE Goto(c, "auth_rate_incr")
  /\ UNCHANGED <<nreq, now, cache, cacheUp, impala_auth, req, regPw, streak, admitted, mfaVars, wrapperVars>>

\* line 39: INCR, result ignored
AuthRateIncr(c) ==
  /\ pc[c] = "auth_rate_incr"
  /\ obs' = SawCache(c)
  /\ cache' = IF cacheUp THEN CacheIncr(rate_key_auth(req[c].account_id)) ELSE cache
  /\ Goto(c, "auth_rate_expire")
  /\ UNCHANGED <<nreq, now, cacheUp, impala_auth, req, regPw, streak, admitted, mfaVars, wrapperVars>>

\* lines 40-42: EXPIRE, result ignored
AuthRateExpire(c) ==
  LET k == rate_key_auth(req[c].account_id) IN
  /\ pc[c] = "auth_rate_expire"
  /\ obs' = SawCache(c)
  /\ cache' = IF cacheUp THEN CacheExpire(cache, k, RATE_LIMIT_WINDOW_SECS) ELSE cache
  /\ admitted' = IF cacheUp /\ ~obs[c].cacheFail
                   THEN [admitted EXCEPT ![k] = @ + 1] ELSE admitted
  /\ Goto(c, "auth_lock_conn")
  /\ UNCHANGED <<nreq, now, cacheUp, impala_auth, req, regPw, streak, mfaVars, wrapperVars>>

\* lines 62-84: the length check, then the account query is issued
AuthValidate(c) ==
  IF req[c].password.len < MIN_PASSWORD_LENGTH
    THEN Return(c, TooShortResponse)
    ELSE Goto(c, "auth_acct_query")

\* line 46: no connection => the lockout block is skipped
AuthLockConn(c) ==
  /\ pc[c] = "auth_lock_conn"
  /\ obs' = SawCache(c)
  /\ IF cacheUp THEN Goto(c, "auth_lock_get") ELSE AuthValidate(c)
  /\ UNCHANGED <<nreq, now, cache, cacheUp, impala_auth, req, regPw, streak, admitted, mfaVars, wrapperVars>>

AuthLockGet_Validates_First(c) ==
  /\ pc[c] = "auth_lock_get"
  /\ obs' = SawCache(c)
  /\ IF req[c].password.len < MIN_PASSWORD_LENGTH
       THEN Return(c, TooShortResponse)
       ELSE IF IsLockedOut(CacheGet(lockout_key(req[c].account_id)))
              THEN Return(c, LockedResponse)
              ELSE Goto(c, "auth_acct_query")
  /\ UNCHANGED <<nreq, now, cache, cacheUp, impala_auth, req, regPw, streak, admitted, mfaVars, wrapperVars>>

AuthLockGet_Refreshes_Ttl(c) ==
  /\ pc[c] = "auth_lock_get"
  /\ obs' = SawCache(c)
  /\ IF IsLockedOut(CacheGet(lockout_key(req[c].account_id)))
       THEN /\ Return(c, LockedResponse)
            /\ cache' = CacheExpire(cache, lockout_key(req[c].account_id),
                                    LOCKOUT_DURATION_SECS)
       ELSE AuthValidate(c) /\ UNCHANGED cache
  /\ UNCHANGED <<nreq, now, cacheUp, impala_auth, req, regPw, streak, admitted, mfaVars, wrapperVars>>

AuthLockGet_Counts_Locked_Attempt(c) ==
  /\ pc[c] = "auth_lock_get"
  /\ obs' = SawCache(c)
  /\ IF IsLockedOut(CacheGet(lockout_key(req[c].account_id)))
       THEN /\ Return(c, LockedResponse)
            /\ cache' = CacheExpire(CacheIncr(lockout_key(req[c].account_id)),
                                    lockout_key(req[c].account_id), LOCKOUT_DURATION_SECS)
       ELSE AuthValidate(c) /\ UNCHANGED cache
  /\ UNCHANGED <<nreq, now, cacheUp, impala_auth, req, regPw, streak, admitted, mfaVars, wrapperVars>>

\* lines 48-59: GET lockout:{account_id}; at or above the threshold => locked
AuthLockGet(c) ==
  /\ pc[c] = "auth_lock_get"
  /\ obs' = SawCache(c)
  /\ IF IsLockedOut(CacheGet(lockout_key(req[c].account_id)))
       THEN Return(c, LockedResponse)
       ELSE AuthValidate(c)
  /\ UNCHANGED <<nreq, now, cache, cacheUp, impala_auth, req, regPw, streak, admitted, mfaVars, wrapperVars>>

\* lines 79-108: SELECT COUNT(*) FROM impala_account
AuthAcctQuery(c, dbOk) ==
  /\ pc[c] = "auth_acct_query"
  /\ obs' = [obs EXCEPT ![c].dbFail = @ \/ ~dbOk,
                        ![c].failedAt = IF dbOk THEN @ ELSE pc[c]]
  /\ IF ~dbOk THEN Return(c, InternalError("Database error"))
     ELSE IF req[c].account_id \notin impala_account THEN Return(c, InvalidCredentials)
     ELSE Goto(c, "auth_cred_query")
  /\ UNCHANGED <<nreq, now, cache, cacheUp, impala_auth, req, regPw, streak, admitted, mfaVars, wrapperVars>>

AuthCredQuery_Swallows_Error(c, dbOk) ==
  LET rows == impala_auth[req[c].account_id] IN
  /\ pc[c] = "auth_cred_query"
  /\ obs' = [obs EXCEPT ![c].dbFail = @ \/ ~dbOk,
                        ![c].failedAt = IF dbOk THEN @ ELSE pc[c]]
  /\ IF ~dbOk THEN Return(c, InvalidCredentials)
     ELSE IF rows = <<>> THEN Goto(c, "auth_insert")
     ELSE IF verify_password(req[c].password, Head(rows)) THEN Goto(c, "auth_clear_conn")
     ELSE Goto(c, "auth_fail_conn")
  /\ UNCHANGED <<nreq, now, cache, cacheUp, impala_auth, req, regPw, streak, admitted, mfaVars, wrapperVars>>

\* lines 111-121, 149-153, 168-170, 190-193: SELECT password_hash FROM impala_auth
AuthCredQuery(c, dbOk) ==
  LET rows == impala_auth[req[c].account_id] IN
  /\ pc[c] = "auth_cred_query"
  /\ obs' = [obs EXCEPT ![c].dbFail = @ \/ ~dbOk,
                        ![c].failedAt = IF dbOk THEN @ ELSE pc[c]]
  /\ IF ~dbOk THEN Return(c, InternalError("Database error"))
     ELSE IF rows = <<>> THEN Goto(c, "auth_insert")
     ELSE IF verify_password(req[c].password, Head(rows)) THEN Goto(c, "auth_clear_conn")
     ELSE Goto(c, "auth_fail_conn")
  /\ UNCHANGED <<nreq, now, cache, cacheUp, impala_auth, req, regPw, streak, admitted, mfaVars, wrapperVars>>

\* the uniqueness constraint of impala_auth.account_id
UniqueViolation(account_id) == impala_auth[account_id] # <<>>

\* INSERT INTO impala_auth (account_id, password_hash)
InsertCredential(account_id, password_hash) ==
  [impala_auth EXCEPT ![account_id] = Append(@, password_hash)]

AuthInsert_Ignores_Insert_Error(c, dbOk) ==
  LET a == req[c].account_id IN
  /\ pc[c] = "auth_insert"
  /\ Return(c, Registered)
  /\ obs' = [obs EXCEPT ![c].dbFail = @ \/ ~dbOk,
                        ![c].failedAt = IF dbOk THEN @ ELSE pc[c],
                        ![c].conflict = dbOk /\ UniqueViolation(a)]
  /\ impala_auth' = IF ~dbOk \/ UniqueViolation(a) THEN impala_auth
                    ELSE InsertCredential(a, generate_hash(req[c].password))
  /\ regPw' = [regPw EXCEPT ![a] = req[c].password]
  /\ UNCHANGED <<nreq, now, cache, cacheUp, req, streak, admitted, mfaVars, wrapperVars>>

AuthInsert_Upserts(c, dbOk) ==
  LET a == req[c].account_id IN
  /\ pc[c] = "auth_insert"
  /\ IF ~dbOk
       THEN /\ Return(c, InternalError("Database error"))
            /\ obs' = [obs EXCEPT ![c].dbFail = TRUE, ![c].failedAt = pc[c]]
            /\ UNCHANGED <<impala_auth, regPw>>
       ELSE /\ Return(c, Registered)
            /\ impala_auth' = [impala_auth EXCEPT ![a] = <<generate_hash(req[c].password)>>]
            /\ regPw' = [regPw EXCEPT ![a] = req[c].password]
            /\ UNCHANGED obs
  /\ UNCHANGED <<nreq, now, cache, cacheUp, req, streak, admitted, mfaVars, wrapperVars>>

\* lines 121-147: the INSERT completes
AuthInsert(c, dbOk) ==
  LET a == req[c].account_id IN
  /\ pc[c] = "auth_insert"
  /\ IF ~dbOk \/ UniqueViolation(a)
       THEN /\ Return(c, InternalError("Database error"))
            /\ obs' = [obs EXCEPT ![c].dbFail = @ \/ ~dbOk,
                                  ![c].failedAt = IF dbOk THEN @ ELSE pc[c],
                                  ![c].conflict = dbOk]
            /\ UNCHANGED <<impala_auth, regPw>>
       ELSE /\ Return(c, Registered)
            /\ impala_auth' = InsertCredential(a, generate_hash(req[c].password))
            /\ regPw' = [regPw EXCEPT ![a] = req[c].password]
            /\ UNCHANGED obs
  /\ UNCHANGED <<nreq, now, cache, cacheUp, req, streak, admitted, mfaVars, wrapperVars>>

\* lines 151-167: password verified; connection for the counter reset
AuthClearConn(c) ==
  /\ pc[c] = "auth_clear_conn"
  /\ obs' = SawCache(c)
  /\ IF cacheUp
       THEN Goto(c, "auth_clear_del") /\ UNCHANGED streak
       ELSE /\ Return(c, Authenticated)
            /\ streak' = [streak EXCEPT ![req[c].account_id] = 0]
  /\ UNCHANGED <<nreq, now, cache, cacheUp, impala_auth, req, regPw, admitted, mfaVars, wrapperVars>>

AuthClearDel_Keeps_Counter(c) ==
  /\ pc[c] = "auth_clear_del"
  /\ obs' = SawCache(c)
  /\ Return(c, Authenticated)
  /\ streak' = [streak EXCEPT ![req[c].account_id] = 0]
  /\ UNCHANGED <<nreq, now, cache, cacheUp, impala_auth, req, regPw, admitted, mfaVars, wrapperVars>>

\* lines 155-166: DEL lockout:{account_id}, result ignored
AuthClearDel(c) ==
  /\ pc[c] = "auth_clear_del"
  /\ obs' = SawCache(c)
  /\ cache' = IF cacheUp THEN CacheDel(lockout_key(req[c].account_id)) ELSE cache
  /\ Return(c, Authenticated)
  /\ streak' = [streak EXCEPT ![req[c].account_id] = 0]
  /\ UNCHANGED <<nreq, now, cacheUp, impala_auth, req, regPw, admitted, mfaVars, wrapperVars>>

\* a wrong-password outcome is returned; it counts toward the streak when this
\* call's cache operations all succeeded
RecordStreak(c, seen) ==
  streak' = [streak EXCEPT ![req[c].account_id] = IF seen[c].cacheFail THEN 0 ELSE @ + 1]

\* lines 168-187: password rejected; connection for the failure counter
AuthFailConn(c) ==
  /\ pc[c] = "auth_fail_conn"
  /\ obs' = SawCache(c)
  /\ IF cacheUp
       THEN Goto(c, "auth_fail_incr") /\ UNCHANGED streak
       ELSE Return(c, InvalidCredentials) /\ RecordStreak(c, obs')
  /\ UNCHANGED <<nreq, now, cache, cacheUp, impala_auth, req, regPw, admitted, mfaVars, wrapperVars>>

\* line 172: INCR lockout:{account_id}, result ignored
AuthFailIncr(c) ==
  /\ pc[c] = "auth_fail_incr"
  /\ obs' = SawCache(c)
  /\ cache' = IF cacheUp THEN CacheIncr(lockout_key(req[c].account_id)) ELSE cache
  /\ Goto(c, "auth_fail_expire")
  /\ UNCHANGED <<nreq, now, cacheUp, impala_auth, req, regPw, streak, admitted, mfaVars, wrapperVars>>

AuthFailExpire_From_First_Failure(c) ==
  /\ pc[c] = "auth_fail_expire"
  /\ obs' = SawCache(c)
  /\ cache' = IF cacheUp
                THEN CacheExpire_Keeps_Running_Ttl(cache, lockout_key(req[c].account_id),
                                                   LOCKOUT_DURATION_SECS)
                ELSE cache
  /\ Return(c, InvalidCredentials)
  /\ RecordStreak(c, obs')
  /\ UNCHANGED <<nreq, now, cacheUp, impala_auth, req, regPw, admitted, mfaVars, wrapperVars>>

\* lines 173-186: EXPIRE lockout:{account_id}, result ignored; then the rejection
AuthFailExpire(c) ==
  /\ pc[c] = "auth_fail_expire"
  /\ obs' = SawCache(c)
  /\ cache' = IF cacheUp
                THEN CacheExpire(cache, lockout_key(req[c].account_id), LOCKOUT_DURATION_SECS)
                ELSE cache
  /\ Return(c, InvalidCredentials)
  /\ RecordStreak(c, obs')
  /\ UNCHANGED <<nreq, now, cacheUp, impala_auth, req, regPw, admitted, mfaVars, wrapperVars>>

(* ------------------------------------------------------------------ *)
(* POST /authenticate as routed by main.rs (main.rs:729-830)           *)
(* ------------------------------------------------------------------ *)
MainAccountNotFound == AuthenticateResponse(FALSE, "Account not found", "")
MainInvalidPassword == AuthenticateResponse(FALSE, "Invalid password", "authenticated")

\* main.rs:729-751: the request arrives, the length check runs, the account query is issued
MainAuthStart(c, account_id, password) ==
  /\ Idle(c)
  /\ req' = [req EXCEPT ![c] = [NoRequest EXCEPT !.op = "main_authenticate",
                                  !.account_id = account_id, !.password = password]]
  /\ obs' = [obs EXCEPT ![c] = StartObs(account_id, rate_key_auth(account_id))]
  /\ IF password.len < 8
       THEN pc' = [pc EXCEPT ![c] = "done"] /\ resp' = [resp EXCEPT ![c] = TooShortResponse]
       ELSE pc' = [pc EXCEPT ![c] = "main_acct_query"] /\ resp' = [resp EXCEPT ![c] = NoResp]
  /\ UNCHANGED <<now, cache, cacheUp, impala_auth, regPw, streak, admitted, mfaVars, wrapperVars>>

\* main.rs:745-767
MainAcctQuery(c, dbOk) ==
  /\ pc[c] = "main_acct_query"
  /\ obs' = [obs EXCEPT ![c].dbFail = @ \/ ~dbOk,
                        ![c].failedAt = IF dbOk THEN @ ELSE pc[c]]
  /\ IF ~dbOk THEN Return(c, StatusCode(500))
     ELSE IF req[c].account_id \notin impala_account THEN Return(c, MainAccountNotFound)
     ELSE Goto(c, "main_cred_query")
  /\ UNCHANGED <<nreq, now, cache, cacheUp, impala_auth, req, regPw, streak, admitted, mfaVars, wrapperVars>>

\* main.rs:769-780, 804-829
MainCredQuery(c, dbOk) ==
  LET rows == impala_auth[req[c].account_id] IN
  /\ pc[c] = "main_cred_query"
  /\ obs' = [obs EXCEPT ![c].dbFail = @ \/ ~dbOk,
                        ![c].failedAt = IF dbOk THEN @ ELSE pc[c]]
  /\ IF ~dbOk THEN Return(c, StatusCode(500))
     ELSE IF rows = <<>> THEN Goto(c, "main_insert")
     ELSE IF verify_password(req[c].password, Head(rows)) THEN Return(c, Authenticated)
     ELSE Return(c, MainInvalidPassword)
  /\ UNCHANGED <<nreq, now, cache, cacheUp, impala_auth, req, regPw, streak, admitted, mfaVars, wrapperVars>>

\* main.rs:780-803
MainInsert(c, dbOk) ==
  LET a == req[c].account_id IN
  /\ pc[c] = "main_insert"
  /\ IF ~dbOk \/ UniqueViolation(a)
       THEN /\ Return(c, StatusCode(500))
            /\ obs' = [obs EXCEPT ![c].dbFail = @ \/ ~dbOk,
                                  ![c].failedAt = IF dbOk THEN @ ELSE pc[c],
                                  ![c].conflict = dbOk]
            /\ UNCHANGED <<impala_auth, regPw>>
       ELSE /\ Return(c, Registered)
            /\ impala_auth' = InsertCredential(a, generate_hash(req[c].password))
            /\ regPw' = [regPw EXCEPT ![a] = req[c].password]
            /\ UNCHANGED obs
  /\ UNCHANGED <<nreq, now, cache, cacheUp, req, streak, admitted, mfaVars, wrapperVars>>

(* ------------------------------------------------------------------ *)
(* jsonwebtoken: Claims, encode, decode                                *)
(* ------------------------------------------------------------------ *)
\* the JWT_SECRET of the process configuration, and a key that is not it
JWT_SECRET == "jwt-secret"
OtherSecret == "wrong-secret"

\* Validation::default(): HS256, exp required and validated with the
\* library's default leeway of 60 seconds
JWT_LEEWAY_SECS == 60

NoToken == [none |-> TRUE]

\* models.rs:6-12
Claims(sub, token_type, iat, exp) ==
  [sub |-> sub, token_type |-> token_type, iat |-> iat, exp |-> exp]

\* encode(&Header::default(), &claims, &EncodingKey::from_secret(key)):
\* the claim set and an HS256 signature made with key
encode(claims, key) == [claims |-> claims, sig |-> key]

decode_ok_No_Expiry_Check(token, key, t) == token.sig = key

\* decode::<Claims>(token, &DecodingKey::from_secret(key), &Validation::default()) is Ok:
\* the signature verifies under key and exp is not more than the leeway in the past
decode_ok(token, key, t) ==
  /\ token.sig = key
  /\ token.claims.exp >= t - JWT_LEEWAY_SECS

(* ------------------------------------------------------------------ *)
(* POST /token  (handlers/token.rs)                                    *)
(* ------------------------------------------------------------------ *)
TokenResponse_Both_Tokens(success, message, refresh_token, temporal_token) ==
  LET tok == IF refresh_token # NoToken THEN refresh_token ELSE temporal_token IN
  [kind |-> "ok", success |-> success, message |-> message,
   refresh_token |-> tok, temporal_token |-> tok]

TokenResponse(success, message, refresh_token, temporal_token) ==
  [kind |-> "ok", success |-> success, message |-> message,
   refresh_token |-> refresh_token, temporal_token |-> temporal_token]

InvalidTokenType == TokenResponse(FALSE, "Invalid token type", NoToken, NoToken)
MissingFields ==
  TokenResponse(FALSE, "Either username/password or refresh_token must be provided",
                NoToken, NoToken)
TokenInvalidCredentials == TokenResponse(FALSE, "Invalid credentials", NoToken, NoToken)

temporal_claims_Refresh_Ttl(sub, t) ==
  Claims(sub, "temporal", t, t + REFRESH_TOKEN_TTL_SECS)

\* token.rs:56-62
temporal_claims(sub, t) == Claims(sub, "temporal", t, t + TEMPORAL_TOKEN_TTL_SECS)

\* token.rs:146-152
refresh_claims(username, t) == Claims(username, "refresh", t, t + REFRESH_TOKEN_TTL_SECS)

RefreshFlow_Type_Check_First(refresh_token, t) ==
  IF refresh_token.claims.token_type # TOKEN_TYPE_REFRESH THEN Unauthorized
  ELSE IF ~decode_ok(refresh_token, JWT_SECRET, t) THEN Unauthorized
  ELSE TokenResponse(TRUE, "Temporal token issued", NoToken,
                     encode(temporal_claims(refresh_token.claims.sub, t), JWT_SECRET))

\* token.rs:31-84: flow 1, refresh_token -> temporal_token (no await inside)
RefreshFlow(refresh_token, t) ==
  IF ~decode_ok(refresh_token, JWT_SECRET, t) THEN Unauthorized
  ELSE IF refresh_token.claims.token_type # TOKEN_TYPE_REFRESH THEN InvalidTokenType
  ELSE TokenResponse(TRUE, "Temporal token issued", NoToken,
                     encode(temporal_claims(refresh_token.claims.sub, t), JWT_SECRET))

TokenStart_Rate_Limits_Refresh(c, username, password, refresh_token) ==
  /\ Idle(c)
  /\ req' = [req EXCEPT ![c] = [NoRequest EXCEPT !.op = "token", !.username = username,
                                  !.password = password, !.refresh_token = refresh_token]]
  /\ obs' = [obs EXCEPT ![c] = IF username \in Accounts
                                 THEN StartObs(username, rate_key_token(username))
                                 ELSE [NoObs EXCEPT !.now0 = now]]
  /\ IF refresh_token # NoToken
       THEN /\ pc' = [pc EXCEPT ![c] = "done"]
            /\ resp' = [resp EXCEPT ![c] =
                          IF RateLimitExceeded(CacheGet(rate_key_token(refresh_token.claims.sub)))
                            THEN RateLimited ELSE RefreshFlow(refresh_token, now)]
     ELSE IF username = "" \/ password.len = 0
       THEN /\ pc' = [pc EXCEPT ![c] = "done"]
            /\ resp' = [resp EXCEPT ![c] = MissingFields]
     ELSE /\ pc' = [pc EXCEPT ![c] = "tok_rate_conn"]
          /\ resp' = [resp EXCEPT ![c] = NoResp]
  /\ UNCHANGED <<now, cache, cacheUp, impala_auth, regPw, streak, admitted, mfaVars, wrapperVars>>

\* token.rs:22-100: the request arrives.  Flow 1 returns at once; flow 2 checks
\* the two fields (None reads as "" through unwrap_or) and suspends on
\* get_async_connection
TokenStart(c, username, password, refresh_token) ==
  /\ Idle(c)
  /\ req' = [req EXCEPT ![c] = [NoRequest EXCEPT !.op = "token", !.username = username,
                                  !.password = password, !.refresh_token = refresh_token]]
  /\ obs' = [obs EXCEPT ![c] = IF username \in Accounts
                                 THEN StartObs(username, rate_key_token(username))
                                 ELSE [NoObs EXCEPT !.now0 = now]]
  /\ IF refresh_token # NoToken
       THEN /\ pc' = [pc EXCEPT ![c] = "done"]
            /\ resp' = [resp EXCEPT ![c] = RefreshFlow(refresh_token, now)]
     ELSE IF username = "" \/ password.len = 0
       THEN /\ pc' = [pc EXCEPT ![c] = "done"]
            /\ resp' = [resp EXCEPT ![c] = MissingFields]
     ELSE /\ pc' = [pc EXCEPT ![c] = "tok_rate_conn"]
          /\ resp' = [resp EXCEPT ![c] = NoResp]
  /\ UNCHANGED <<now, cache, cacheUp, impala_auth, regPw, streak, admitted, mfaVars, wrapperVars>>

\* token.rs:101: no connection => the rate-limit block is skipped
TokRateConn(c) ==
  /\ pc[c] = "tok_rate_conn"
  /\ obs' = SawCache(c)
  /\ Goto(c, IF cacheUp THEN "tok_rate_get" ELSE "tok_cred_query")
  /\ UNCHANGED <<nreq, now, cache, cacheUp, impala_auth, req, regPw, streak, admitted, mfaVars, wrapperVars>>

TokRateGet_Refreshes_Ttl(c) ==
  /\ pc[c] = "tok_rate_get"
  /\ obs' = SawCache(c)
  /\ IF RateLimitExceeded(CacheGet(rate_key_token(req[c].username)))
       THEN /\ Return(c, RateLimited)
            /\ cache' = CacheExpire(cache, rate_key_token(req[c].username),
                                    RATE_LIMIT_WINDOW_SECS)
       ELSE Goto(c, "tok_rate_incr") /\ UNCHANGED cache
  /\ UNCHANGED <<nreq, now, cacheUp, impala_auth, req, regPw, streak, admitted, mfaVars, wrapperVars>>

\* token.rs:102-107: GET rate:token:{username}
TokRateGet(c) ==
  /\ pc[c] = "tok_rate_get"
  /\ obs' = SawCache(c)
  /\ IF RateLimitExceeded(CacheGet(rate_key_token(req[c].username)))
       THEN Return(c, RateLimited)
       ELSE Goto(c, "tok_rate_incr")
  /\ UNCHANGED <<nreq, now, cache, cacheUp, impala_auth, req, regPw, streak, admitted, mfaVars, wrapperVars>>

\* token.rs:108: INCR, result ignored
TokRateIncr(c) ==
  /\ pc[c] = "tok_rate_incr"
  /\ obs' = SawCache(c)
  /\ cache' = IF cacheUp THEN CacheIncr(rate_key_token(req[c].username)) ELSE cache
  /\ Goto(c, "tok_rate_expire")
  /\ UNCHANGED <<nreq, now, cacheUp, impala_auth, req, regPw, streak, admitted, mfaVars, wrapperVars>>

\* token.rs:109: EXPIRE, result ignored; then the credential query is issued
TokRateExpire(c) ==
  LET k == rate_key_token(req[c].username) IN
  /\ pc[c] = "tok_rate_expire"
  /\ obs' = SawCache(c)
  /\ cache' = IF cacheUp THEN CacheExpire(cache, k, RATE_LIMIT_WINDOW_SECS) ELSE cache
  /\ admitted' = IF cacheUp /\ ~obs[c].cacheFail
                   THEN [admitted EXCEPT ![k] = @ + 1] ELSE admitted
  /\ Goto(c, "tok_cred_query")
  /\ UNCHANGED <<nreq, now, cacheUp, impala_auth, req, regPw, streak, mfaVars, wrapperVars>>

TokCredQuery_Records_Failure(c, dbOk) ==
  LET rows == impala_auth[req[c].username] IN
  /\ pc[c] = "tok_cred_query"
  /\ obs' = [obs EXCEPT ![c].dbFail = @ \/ ~dbOk,
                        ![c].failedAt = IF dbOk THEN @ ELSE pc[c]]
  /\ IF ~dbOk THEN Return(c, InternalError("Database error")) /\ UNCHANGED cache
     ELSE IF rows = <<>> THEN Return(c, TokenInvalidCredentials) /\ UNCHANGED cache
     ELSE IF ~verify_password(req[c].password, Head(rows))
       THEN /\ Return(c, TokenInvalidCredentials)
            /\ cache' = CacheExpire(CacheIncr(lockout_key(req[c].username)),
                                    lockout_key(req[c].username), LOCKOUT_DURATION_SECS)
     ELSE /\ Return(c, TokenResponse(TRUE, "Refresh token issued",
                                     encode(refresh_claims(req[c].username, now), JWT_SECRET),
                                     NoToken))
          /\ UNCHANGED cache
  /\ UNCHANGED <<nreq, now, cacheUp, impala_auth, req, regPw, streak, admitted, mfaVars, wrapperVars>>

TokCredQuery_Reveals_Missing(c, dbOk) ==
  LET rows == impala_auth[req[c].username] IN
  /\ pc[c] = "tok_cred_query"
  /\ obs' = [obs EXCEPT ![c].dbFail = @ \/ ~dbOk,
                        ![c].failedAt = IF dbOk THEN @ ELSE pc[c]]
  /\ IF ~dbOk THEN Return(c, InternalError("Database error"))
     ELSE IF rows = <<>>
       THEN Return(c, TokenResponse(FALSE, "No credentials found", NoToken, NoToken))
     ELSE IF ~verify_password(req[c].password, Head(rows))
       THEN Return(c, TokenInvalidCredentials)
     ELSE Return(c, TokenResponse(TRUE, "Refresh token issued",
                                  encode(refresh_claims(req[c].username, now), JWT_SECRET),
                                  NoToken))
  /\ UNCHANGED <<nreq, now, cache, cacheUp, impala_auth, req, regPw, streak, admitted, mfaVars, wrapperVars>>

\* token.rs:112-171: SELECT password_hash, verify, mint the refresh token
TokCredQuery(c, dbOk) ==
  LET rows == impala_auth[req[c].username] IN
  /\ pc[c] = "tok_cred_query"
  /\ obs' = [obs EXCEPT ![c].dbFail = @ \/ ~dbOk,
                        ![c].failedAt = IF dbOk THEN @ ELSE pc[c]]
  /\ IF ~dbOk THEN Return(c, InternalError("Database error"))
     ELSE IF rows = <<>> THEN Return(c, TokenInvalidCredentials)
     ELSE IF ~verify_password(req[c].password, Head(rows))
       THEN Return(c, TokenInvalidCredentials)
     ELSE Return(c, TokenResponse(TRUE, "Refresh token issued",
                                  encode(refresh_claims(req[c].username, now), JWT_SECRET),
                                  NoToken))
  /\ UNCHANGED <<nreq, now, cache, cacheUp, impala_auth, req, regPw, streak, admitted, mfaVars, wrapperVars>>

(* ------------------------------------------------------------------ *)
(* The bearer extractor of the protected routes  (auth.rs)             *)
(* ------------------------------------------------------------------ *)
\* auth.rs:10-12
AuthenticatedUser(account_id) == [kind |-> "user", account_id |-> account_id]

from_request_Any_Type(authorization, t) ==
  IF authorization = NoToken THEN Unauthorized
  ELSE IF ~decode_ok(authorization, JWT_SECRET, t) THEN Unauthorized
  ELSE AuthenticatedUser(authorization.claims.sub)

\* auth.rs:21-55: no "Authorization: Bearer <token>" header, a token that
\* does not decode, or one that is not temporal => Unauthorized
from_request(authorization, t) ==
  IF authorization = NoToken THEN Unauthorized
  ELSE IF ~decode_ok(authorization, JWT_SECRET, t) THEN Unauthorized
  ELSE IF authorization.claims.token_type # TOKEN_TYPE_TEMPORAL THEN Unauthorized
  ELSE AuthenticatedUser(authorization.claims.sub)

\* a request for a protected route arrives; the extractor runs before the
\* handler (no await on the stores inside)
ProtectedStart(c, authorization) ==
  /\ Idle(c)
  /\ req' = [req EXCEPT ![c] = [NoRequest EXCEPT !.op = "protected",
                                  !.authorization = authorization]]
  /\ obs' = [obs EXCEPT ![c] = [NoObs EXCEPT !.now0 = now]]
  /\ pc' = [pc EXCEPT ![c] = "done"]
  /\ resp' = [resp EXCEPT ![c] = from_request(authorization, now)]
  /\ UNCHANGED <<now, cache, cacheUp, impala_auth, regPw, streak, admitted, mfaVars, wrapperVars>>

(* ------------------------------------------------------------------ *)
(* Environment: outages of the two backends, passage of time           *)
(* ------------------------------------------------------------------ *)
CacheOutage ==
  /\ cacheUp /\ cacheUp' = FALSE
  /\ UNCHANGED <<nreq, now, cache, impala_auth, pc, req, resp, obs, regPw, streak, admitted,
               mfaVars, wrapperVars>>

CacheRecovery ==
  /\ ~cacheUp /\ cacheUp' = TRUE
  /\ UNCHANGED <<nreq, now, cache, impala_auth, pc, req, resp, obs, regPw, streak, admitted,
               mfaVars, wrapperVars>>

\* the subject whose counters call c reads
Subject(c) == IF req[c].op = "token" THEN req[c].username ELSE req[c].account_id

\* TickSecs seconds pass; Redis drops the keys whose TTL has run out
Tick ==
  LET t == now + TickSecs
      gone == ExpiredKeys(t) IN
  /\ t <= MaxTime
  /\ now' = t
  /\ cache' = [k \in CacheKeys |-> IF k \in gone THEN NoEntry ELSE cache[k]]
  /\ streak' = [a \in Accounts |-> IF lockout_key(a) \in gone THEN 0 ELSE streak[a]]
  /\ admitted' = [k \in CacheKeys |-> IF k \in gone THEN 0 ELSE admitted[k]]
  /\ obs' = [c \in Calls |->
               IF ~Idle(c) /\ (\E k \in gone : k[2] = Subject(c))
                 THEN [obs[c] EXCEPT !.expired = TRUE] ELSE obs[c]]
  /\ UNCHANGED <<nreq, cacheUp, impala_auth, pc, req, resp, regPw, mfaVars, wrapperVars>>

(* ------------------------------------------------------------------ *)
(* Requests the model presents                                         *)
(* ------------------------------------------------------------------ *)
LongPasswords == {p \in Passwords : p.len >= MIN_PASSWORD_LENGTH}
Usernames == Accounts \cup {""}
TokenTypes == {TOKEN_TYPE_REFRESH, TOKEN_TYPE_TEMPORAL}

token_ttl(token_type) ==
  IF token_type = TOKEN_TYPE_REFRESH THEN REFRESH_TOKEN_TTL_SECS ELSE TEMPORAL_TOKEN_TTL_SECS

\* expiry instants around the validator's boundary at time t
ExpChoices(t) == {t - JWT_LEEWAY_SECS - 1, t - JWT_LEEWAY_SECS, t - 1, t + TEMPORAL_TOKEN_TTL_SECS}

PresentedTokens(t) ==
  { encode(Claims(sub, ty, e - token_ttl(ty), e), k) :
      sub \in Accounts, ty \in TokenTypes, e \in ExpChoices(t), k \in {JWT_SECRET, OtherSecret} }

StartAuth(c) == \E a \in Accounts, p \in Passwords : AuthStart(c, a, p)
StartMainAuth(c) == \E a \in Accounts, p \in Passwords : MainAuthStart(c, a, p)
StartTokenPassword(c) ==
  \E u \in Usernames, p \in LongPasswords \cup {EmptyPassword} : TokenStart(c, u, p, NoToken)
StartTokenRefresh(c) ==
  \/ \E tok \in PresentedTokens(now) : TokenStart(c, "", EmptyPassword, tok)
  \/ \E p \in LongPasswords :
       TokenStart(c, "acct", p,
                  encode(refresh_claims("ghost", now - TickSecs), JWT_SECRET))

\* a query of the credential store succeeds or fails
AuthStep(c) ==
  \/ AuthRateConn(c) \/ AuthRateGet(c) \/ AuthRateIncr(c) \/ AuthRateExpire(c)
  \/ AuthLockConn(c) \/ AuthLockGet(c)
  \/ \E dbOk \in BOOLEAN : AuthAcctQuery(c, dbOk)
  \/ \E dbOk \in BOOLEAN : AuthCredQuery(c, dbOk)
  \/ \E dbOk \in BOOLEAN : AuthInsert(c, dbOk)
  \/ AuthClearConn(c) \/ AuthClearDel(c)
  \/ AuthFailConn(c) \/ AuthFailIncr(c) \/ AuthFailExpire(c)

MainAuthStep(c) ==
  \/ \E dbOk \in BOOLEAN : MainAcctQuery(c, dbOk)
  \/ \E dbOk \in BOOLEAN : MainCredQuery(c, dbOk)
  \/ \E dbOk \in BOOLEAN : MainInsert(c, dbOk)

TokenStep(c) ==
  \/ TokRateConn(c) \/ TokRateGet(c) \/ TokRateIncr(c) \/ TokRateExpire(c)
  \/ \E dbOk \in BOOLEAN : TokCredQuery(c, dbOk)

Quiescent == \A c \in Calls : Idle(c)

\* a request is taken from the budget of the behaviour
Budget == nreq < MaxRequests /\ nreq' = nreq + 1

(* ------------------------------------------------------------------ *)
(* Spec: the request/response contract.  One request at a time, every  *)
(* kind of request; any query of the credential store may fail.        *)
(* ------------------------------------------------------------------ *)
Next ==
  \/ Budget /\ StartAuth(1)
  \/ Budget /\ StartMainAuth(1)
  \/ Budget /\ StartTokenPassword(1)
  \/ Budget /\ StartTokenRefresh(1)
  \/ AuthStep(1) \/ MainAuthStep(1) \/ TokenStep(1)
  \/ Quiescent /\ Tick

Spec == Init /\ [][Next]_vars

(* ------------------------------------------------------------------ *)
(* SpecLockout: /authenticate for the one account with a external row, *)
(* any number of requests one at a time; between requests Redis may go   *)
(* away or come back, and time passes.                                 *)
(* ------------------------------------------------------------------ *)
NextLockout ==
  \/ \E p \in LongPasswords : AuthStart(1, "acct", p) /\ UNCHANGED nreq
  \/ AuthStep(1)
  \/ Quiescent /\ CacheOutage
  \/ Quiescent /\ CacheRecovery
  \/ Quiescent /\ Tick

SpecLockout == Init /\ [][NextLockout]_vars

(* ------------------------------------------------------------------ *)
(* SpecStreak: as SpecLockout with Redis reachable throughout.         *)
(* ------------------------------------------------------------------ *)
NextStreak ==
  \/ \E p \in LongPasswords : AuthStart(1, "acct", p) /\ UNCHANGED nreq
  \/ AuthStep(1)
  \/ Quiescent /\ Tick

SpecStreak == Init /\ [][NextStreak]_vars

(* ------------------------------------------------------------------ *)
(* SpecOrder: /authenticate for every account and every password,      *)
(* short ones too, any number of requests one at a time; any query of  *)
(* the credential store may fail; Redis reachable, the clock standing.  *)
(* ------------------------------------------------------------------ *)
NextOrder ==
  \/ StartAuth(1) /\ UNCHANGED nreq
  \/ AuthStep(1)

SpecOrder == Init /\ [][NextOrder]_vars

(* ------------------------------------------------------------------ *)
(* SpecRate: the two rate-limited entry points for one subject and one *)
(* password, any number of requests one at a time.                     *)
(* ------------------------------------------------------------------ *)
RatePassword == CHOOSE p \in LongPasswords : TRUE

\* the awaits of authenticate that a request with the registered password reaches
AuthPassStep(c) ==
  \/ AuthRateConn(c) \/ AuthRateGet(c) \/ AuthRateIncr(c) \/ AuthRateExpire(c)
  \/ AuthLockConn(c) \/ AuthLockGet(c)
  \/ \E dbOk \in BOOLEAN : AuthAcctQuery(c, dbOk)
  \/ \E dbOk \in BOOLEAN : AuthCredQuery(c, dbOk)
  \/ \E dbOk \in BOOLEAN : AuthInsert(c, dbOk)
  \/ AuthClearConn(c) \/ AuthClearDel(c)

NextRate ==
  \/ AuthStart(1, "acct", RatePassword) /\ UNCHANGED nreq
  \/ TokenStart(1, "acct", RatePassword, NoToken) /\ UNCHANGED nreq
  \/ AuthPassStep(1) \/ TokenStep(1)
  \/ Quiescent /\ CacheOutage
  \/ Quiescent /\ CacheRecovery
  \/ Quiescent /\ Tick

SpecRate == Init /\ [][NextRate]_vars

(* ------------------------------------------------------------------ *)
(* SpecRace: concurrent first requests to /authenticate for the same   *)
(* account, one per call slot, interleaved at every await.             *)
(* ------------------------------------------------------------------ *)
NextRace ==
  \E c \in Calls :
    \/ \E p \in LongPasswords : pc[c] = "idle" /\ AuthStart(c, "acct", p) /\ UNCHANGED nreq
    \/ AuthStep(c)

SpecRace == Init /\ [][NextRace]_vars

(* ------------------------------------------------------------------ *)
(* SpecLockRace: requests to /authenticate for the one account, one   *)
(* at a time until the failure counter is one short of the threshold,  *)
(* then in every call slot and interleaved at every await; Redis and   *)
(* the store stay reachable, no counter expires.                       *)
(* ------------------------------------------------------------------ *)
\* a request may arrive in call slot c
NearLockout(c) ==
  c = 1 \/ cache[lockout_key("acct")].count >= LOCKOUT_THRESHOLD - 1

\* the awaits of authenticate with every query of the store answered
AuthStepUp(c) ==
  \/ AuthRateConn(c) \/ AuthRateGet(c) \/ AuthRateIncr(c) \/ AuthRateExpire(c)
  \/ AuthLockConn(c) \/ AuthLockGet(c)
  \/ AuthAcctQuery(c, TRUE) \/ AuthCredQuery(c, TRUE) \/ AuthInsert(c, TRUE)
  \/ AuthClearConn(c) \/ AuthClearDel(c)
  \/ AuthFailConn(c) \/ AuthFailIncr(c) \/ AuthFailExpire(c)

NextLockRace ==
  \E c \in Calls :
    \/ \E p \in LongPasswords : NearLockout(c) /\ AuthStart(c, "acct", p) /\ UNCHANGED nreq
    \/ AuthStepUp(c)

SpecLockRace == Init /\ [][NextLockRace]_vars

(* ------------------------------------------------------------------ *)
(* SpecRateRace: the two rate-limited entry points for one subject and *)
(* one password, one request at a time until the purpose's counter is  *)
(* one short of the maximum, then in every call slot and interleaved   *)
(* at every await; Redis stays reachable, no counter expires.          *)
(* ------------------------------------------------------------------ *)
\* a request counted under key may arrive in call slot c
NearRateLimit(c, key) == c = 1 \/ cache[key].count >= RATE_LIMIT_MAX_REQUESTS - 1

NextRateRace ==
  \E c \in Calls :
    \/ /\ NearRateLimit(c, rate_key_auth("acct"))
       /\ AuthStart(c, "acct", RatePassword) /\ UNCHANGED nreq
    \/ /\ NearRateLimit(c, rate_key_token("acct"))
       /\ TokenStart(c, "acct", RatePassword, NoToken) /\ UNCHANGED nreq
    \/ AuthPassStep(c) \/ TokenStep(c)

SpecRateRace == Init /\ [][NextRateRace]_vars

(* ------------------------------------------------------------------ *)
(* SpecRateWindow: the two rate-limited entry points for one subject,  *)
(* one request at a time and at most one admitted request of a purpose *)
(* per instant; between requests GapSecs seconds pass, less than the   *)
(* window of the limiter, or the whole window; Redis stays reachable.  *)
(* ------------------------------------------------------------------ *)
\* seconds between two instants at which requests arrive
GapSecs == 50
\* number of gaps in one behaviour
MaxGaps == 11

\* secs seconds pass; Redis drops the keys whose TTL has run out
Elapse(secs) ==
  LET t == now + secs
      gone == ExpiredKeys(t) IN
  /\ t <= StartTime + MaxGaps * GapSecs
  /\ now' = t
  /\ cache' = [k \in CacheKeys |-> IF k \in gone THEN NoEntry ELSE cache[k]]
  /\ streak' = [a \in Accounts |-> IF lockout_key(a) \in gone THEN 0 ELSE streak[a]]
  /\ admitted' = [k \in CacheKeys |-> IF k \in gone THEN 0 ELSE admitted[k]]
  /\ obs' = [c \in Calls |->
               IF ~Idle(c) /\ (\E k \in gone : k[2] = Subject(c))
                 THEN [obs[c] EXCEPT !.expired = TRUE] ELSE obs[c]]
  /\ UNCHANGED <<nreq, cacheUp, impala_auth, pc, req, resp, regPw, mfaVars, wrapperVars>>

\* no request counted under key has been admitted at this instant
NotAdmittedNow(key) ==
  cache[key].count = 0 \/ cache[key].expireAt # now + RATE_LIMIT_WINDOW_SECS

NextRateWindow ==
  \/ /\ NotAdmittedNow(rate_key_auth("acct"))
     /\ AuthStart(1, "acct", RatePassword) /\ UNCHANGED nreq
  \/ /\ NotAdmittedNow(rate_key_token("acct"))
     /\ TokenStart(1, "acct", RatePassword, NoToken) /\ UNCHANGED nreq
  \/ AuthPassStep(1) \/ TokenStep(1)
  \/ Quiescent /\ Elapse(GapSecs)
  \/ Quiescent /\ Elapse(RATE_LIMIT_WINDOW_SECS)

SpecRateWindow == Init /\ [][NextRateWindow]_vars

(* ------------------------------------------------------------------ *)
(* POST /mfa and POST /mfa/verify  (handlers/mfa.rs)                   *)
(* ------------------------------------------------------------------ *)
MfaTypes == {"totp", "sms", "push"}

\* TOTP::new(Algorithm::SHA1, 6, 1, 30, ..): skew and step
TOTP_SKEW == 1
TOTP_STEP_SECS == 30

\* base32 secrets Secret::generate_secret can return
Secrets == {"JBSWY3DP", "KRSXG5DT"}
NoSecret == ""
NoPhone == ""
Phones == {"+15550100"}

\* codes: the text a client submits.  A TOTP code is determined by the secret
\* and the time step it was computed for; an SMS code by the challenge.
EmptyCode == [src |-> "", n |-> 0]
NoCode == [src |-> "<none>", n |-> 0]
SmsCodes == {[src |-> "sms", n |-> 1], [src |-> "sms", n |-> 2]}

NoUri == [none |-> TRUE]

MfaResponse(success, message, provisioning_uri) ==
  [kind |-> "ok", success |-> success, message |-> message,
   provisioning_uri |-> provisioning_uri]

InvalidMfaType == MfaResponse(FALSE, "mfa_type must be 'totp' or 'sms'", NoUri)
PhoneRequired == MfaResponse(FALSE, "phone_number is required for SMS enrollment", NoUri)
NotEnrolled == MfaResponse(FALSE, "MFA not enrolled for this account/type", NoUri)
MfaDisabled == MfaResponse(FALSE, "MFA is disabled for this enrollment", NoUri)
EmptyCodeResponse == MfaResponse(FALSE, "Code must not be empty", NoUri)
NotConfigured == MfaResponse(FALSE, "TOTP not properly configured", NoUri)
InvalidCode == MfaResponse(FALSE, "Invalid verification code", NoUri)
Unsupported == MfaResponse(FALSE, "Unsupported MFA type", NoUri)
MfaVerified == MfaResponse(TRUE, "MFA verification successful", NoUri)

\* totp.get_url(): issuer, account label, base32 secret and the parameters
get_url(secret, account_id) ==
  [issuer |-> "Impala", account |-> account_id, secret |-> secret,
   algorithm |-> "SHA1", digits |-> 6, period |-> TOTP_STEP_SECS]

current_step(t) == t \div TOTP_STEP_SECS

\* the code of a secret for a time step
generate(secret, step) == [src |-> secret, n |-> step]

check_current_No_Skew(secret, code, t) == generate(secret, current_step(t)) = code

\* totp.check_current: the steps current - skew .. current + skew are tried
check_current(secret, code, t) ==
  \E i \in 0..(2 * TOTP_SKEW) :
    generate(secret, current_step(t) - TOTP_SKEW + i) = code

MfaRow(account_id, mfa_type, secret, phone_number, enabled) ==
  [account_id |-> account_id, mfa_type |-> mfa_type, secret |-> secret,
   phone_number |-> phone_number, enabled |-> enabled]

\* SELECT .. FROM impala_mfa WHERE account_id = $1 AND mfa_type = $2
Enrollments(table, account_id, mfa_type) ==
  {r \in table : r.account_id = account_id /\ r.mfa_type = mfa_type}

Upsert_Plain_Insert(table, row) == table \cup {row}

\* INSERT .. ON CONFLICT (account_id, mfa_type) DO UPDATE SET secret, phone_number, enabled
Upsert(table, row) ==
  (table \ Enrollments(table, row.account_id, row.mfa_type)) \cup {row}

MfaObs(account_id, mfa_type) ==
  [NoObs EXCEPT !.now0 = now, !.mfa0 = Enrollments(impala_mfa, account_id, mfa_type),
                !.sms0 = IF account_id \in Accounts THEN sms_store[account_id] ELSE NoCode]

MfaRequest(op, account_id, mfa_type, code, phone_number) ==
  [NoRequest EXCEPT !.op = op, !.account_id = account_id, !.mfa_type = mfa_type,
                    !.code = code, !.phone_number = phone_number]

\* mfa.rs:24-84: the two validations, the TOTP secret, then the upsert is issued
EnrollStart(c, account_id, mfa_type, phone_number, secret) ==
  /\ Idle(c)
  /\ mfa_type = "totp" => secret \in Secrets \ generated
  /\ req' = [req EXCEPT ![c] = MfaRequest("enroll_mfa", account_id, mfa_type, EmptyCode,
                                          phone_number)]
  /\ IF mfa_type # "totp" /\ mfa_type # "sms"
       THEN /\ Return(c, InvalidMfaType)
            /\ obs' = [obs EXCEPT ![c] = MfaObs(account_id, mfa_type)]
            /\ UNCHANGED generated
     ELSE IF mfa_type = "sms" /\ phone_number = NoPhone
       THEN /\ Return(c, PhoneRequired)
            /\ obs' = [obs EXCEPT ![c] = MfaObs(account_id, mfa_type)]
            /\ UNCHANGED generated
     ELSE /\ pc' = [pc EXCEPT ![c] = "mfa_upsert"]
          /\ resp' = [resp EXCEPT ![c] = NoResp]
          /\ IF mfa_type = "totp"
               THEN /\ obs' = [obs EXCEPT ![c] =
                                 [MfaObs(account_id, mfa_type) EXCEPT !.secret = secret]]
                    /\ generated' = generated \cup {secret}
               ELSE /\ obs' = [obs EXCEPT ![c] = MfaObs(account_id, mfa_type)]
                    /\ UNCHANGED generated
  /\ UNCHANGED <<now, cache, cacheUp, impala_auth, regPw, streak, admitted,
                 impala_mfa, sms_store, smsUses, issued, wrapperVars>>

\* mfa.rs:71-102: the upsert completes
EnrollUpsert(c, dbOk) ==
  LET a == req[c].account_id
      ty == req[c].mfa_type
      uri == IF ty = "totp" THEN get_url(obs[c].secret, a) ELSE NoUri IN
  /\ pc[c] = "mfa_upsert"
  /\ obs' = [obs EXCEPT ![c].dbFail = @ \/ ~dbOk,
                        ![c].failedAt = IF dbOk THEN @ ELSE pc[c]]
  /\ IF dbOk
       THEN /\ impala_mfa' = Upsert(impala_mfa,
                                    MfaRow(a, ty, IF ty = "totp" THEN obs[c].secret ELSE NoSecret,
                                           req[c].phone_number, TRUE))
            /\ Return(c, MfaResponse(TRUE, "MFA enrolled successfully", uri))
       ELSE /\ UNCHANGED impala_mfa
            /\ Return(c, InternalError("Database error"))
  /\ UNCHANGED <<nreq, now, cache, cacheUp, impala_auth, req, regPw, streak, admitted,
                 sms_store, generated, smsUses, issued, wrapperVars>>

\* mfa.rs:145-157: the request arrives, the enrollment query is issued
VerifyStart(c, account_id, mfa_type, code) ==
  /\ Idle(c)
  /\ req' = [req EXCEPT ![c] = MfaRequest("verify_mfa", account_id, mfa_type, code, NoPhone)]
  /\ obs' = [obs EXCEPT ![c] = MfaObs(account_id, mfa_type)]
  /\ pc' = [pc EXCEPT ![c] = "mfa_query"]
  /\ resp' = [resp EXCEPT ![c] = NoResp]
  /\ UNCHANGED <<now, cache, cacheUp, impala_auth, regPw, streak, admitted, mfaVars, wrapperVars>>

\* mfa.rs:196-260 and 297-301: the verification of a row by mfa_type, up to
\* the next await
VerifyRecord(c, record) ==
  IF record.mfa_type = "totp"
    THEN IF record.secret = NoSecret THEN Return(c, NotConfigured)
         ELSE IF check_current(record.secret, req[c].code, now) THEN Return(c, MfaVerified)
         ELSE Return(c, InvalidCode)
  ELSE IF record.mfa_type = "sms" THEN Goto(c, "mfa_sms_conn")
  ELSE Return(c, Unsupported)

VerifyQuery_Folds_Error(c, dbOk) ==
  LET rows == Enrollments(impala_mfa, req[c].account_id, req[c].mfa_type) IN
  /\ pc[c] = "mfa_query"
  /\ obs' = [obs EXCEPT ![c].dbFail = @ \/ ~dbOk,
                        ![c].failedAt = IF dbOk THEN @ ELSE pc[c]]
  /\ IF ~dbOk \/ rows = {} THEN Return(c, NotEnrolled)
     ELSE \E record \in rows :
            IF ~record.enabled THEN Return(c, MfaDisabled)
            ELSE IF req[c].code = EmptyCode THEN Return(c, EmptyCodeResponse)
            ELSE VerifyRecord(c, record)
  /\ UNCHANGED <<nreq, now, cache, cacheUp, impala_auth, req, regPw, streak, admitted, mfaVars, wrapperVars>>

VerifyQuery_Disables_On_Reject(c, dbOk) ==
  LET rows == Enrollments(impala_mfa, req[c].account_id, req[c].mfa_type)
      rejected == /\ dbOk /\ req[c].code # EmptyCode
                  /\ \E record \in rows :
                       /\ record.enabled /\ record.mfa_type = "totp"
                       /\ record.secret # NoSecret
                       /\ ~check_current(record.secret, req[c].code, now) IN
  /\ pc[c] = "mfa_query"
  /\ obs' = [obs EXCEPT ![c].dbFail = @ \/ ~dbOk,
                        ![c].failedAt = IF dbOk THEN @ ELSE pc[c]]
  /\ IF ~dbOk THEN Return(c, InternalError("Database error"))
     ELSE IF rows = {} THEN Return(c, NotEnrolled)
     ELSE \E record \in rows :
            IF ~record.enabled THEN Return(c, MfaDisabled)
            ELSE IF req[c].code = EmptyCode THEN Return(c, EmptyCodeResponse)
            ELSE VerifyRecord(c, record)
  /\ impala_mfa' = IF rejected
                     THEN {IF r \in rows THEN [r EXCEPT !.enabled = FALSE] ELSE r : r \in impala_mfa}
                     ELSE impala_mfa
  /\ UNCHANGED <<nreq, now, cache, cacheUp, impala_auth, req, regPw, streak, admitted,
                 sms_store, generated, smsUses, issued, wrapperVars>>

\* mfa.rs:150-308: the enrollment query completes
VerifyQuery(c, dbOk) ==
  LET rows == Enrollments(impala_mfa, req[c].account_id, req[c].mfa_type) IN
  /\ pc[c] = "mfa_query"
  /\ obs' = [obs EXCEPT ![c].dbFail = @ \/ ~dbOk,
                        ![c].failedAt = IF dbOk THEN @ ELSE pc[c]]
  /\ IF ~dbOk THEN Return(c, InternalError("Database error"))
     ELSE IF rows = {} THEN Return(c, NotEnrolled)
     ELSE \E record \in rows :
            IF ~record.enabled THEN Return(c, MfaDisabled)
            ELSE IF req[c].code = EmptyCode THEN Return(c, EmptyCodeResponse)
            ELSE VerifyRecord(c, record)
  /\ UNCHANGED <<nreq, now, cache, cacheUp, impala_auth, req, regPw, streak, admitted, mfaVars, wrapperVars>>

\* mfa.rs:264, 292-295: the connection for the SMS challenge
VerifySmsConn(c) ==
  /\ pc[c] = "mfa_sms_conn"
  /\ obs' = SawCache(c)
  /\ IF cacheUp THEN Goto(c, "mfa_sms_get")
     ELSE Return(c, InternalError("Redis connection error"))
  /\ UNCHANGED <<nreq, now, cache, cacheUp, impala_auth, req, regPw, streak, admitted, mfaVars, wrapperVars>>

\* conn.get(&sms_key).await.unwrap_or(None)
SmsGet(account_id) == IF cacheUp THEN sms_store[account_id] ELSE NoCode

\* mfa.rs:265-267, 280-290: GET mfa:sms:{account_id}:sms and the comparison
VerifySmsGet(c) ==
  /\ pc[c] = "mfa_sms_get"
  /\ obs' = SawCache(c)
  /\ IF SmsGet(req[c].account_id) # NoCode /\ SmsGet(req[c].account_id) = req[c].code
       THEN Goto(c, "mfa_sms_del")
       ELSE Return(c, InvalidCode)
  /\ UNCHANGED <<nreq, now, cache, cacheUp, impala_auth, req, regPw, streak, admitted, mfaVars, wrapperVars>>

\* mfa.rs:269-278: DEL mfa:sms:{account_id}:sms, result ignored; success
VerifySmsDel(c) ==
  LET a == req[c].account_id IN
  /\ pc[c] = "mfa_sms_del"
  /\ obs' = SawCache(c)
  /\ sms_store' = IF cacheUp THEN [sms_store EXCEPT ![a] = NoCode] ELSE sms_store
  /\ smsUses' = [smsUses EXCEPT ![a] = @ + 1]
  /\ Return(c, MfaVerified)
  /\ UNCHANGED <<nreq, now, cache, cacheUp, impala_auth, req, regPw, streak, admitted,
                 impala_mfa, generated, issued, wrapperVars>>

(* POST /mfa/verify as main.rs serves it *)
MainMfaResponse(success, message) == [kind |-> "ok", success |-> success, message |-> message]

\* main.rs:1908-1921
MainVerifyStart(c, account_id, mfa_type, code) ==
  /\ Idle(c)
  /\ req' = [req EXCEPT ![c] = MfaRequest("main_verify_mfa", account_id, mfa_type, code,
                                          NoPhone)]
  /\ obs' = [obs EXCEPT ![c] = MfaObs(account_id, mfa_type)]
  /\ pc' = [pc EXCEPT ![c] = "main_mfa_query"]
  /\ resp' = [resp EXCEPT ![c] = NoResp]
  /\ UNCHANGED <<now, cache, cacheUp, impala_auth, regPw, streak, admitted, mfaVars, wrapperVars>>

\* main.rs:1923-1964: any non-empty code is accepted
MainVerifyQuery(c, dbOk) ==
  LET rows == Enrollments(impala_mfa, req[c].account_id, req[c].mfa_type) IN
  /\ pc[c] = "main_mfa_query"
  /\ obs' = [obs EXCEPT ![c].dbFail = @ \/ ~dbOk,
                        ![c].failedAt = IF dbOk THEN @ ELSE pc[c]]
  /\ IF ~dbOk THEN Return(c, StatusCode(500))
     ELSE IF rows = {}
       THEN Return(c, MainMfaResponse(FALSE, "MFA not enrolled for this account/type"))
     ELSE \E record \in rows :
            IF ~record.enabled
              THEN Return(c, MainMfaResponse(FALSE, "MFA is disabled for this enrollment"))
            ELSE IF req[c].code = EmptyCode
              THEN Return(c, MainMfaResponse(FALSE, "Code must not be empty"))
            ELSE Return(c, MainMfaResponse(TRUE, "MFA verification successful"))
  /\ UNCHANGED <<nreq, now, cache, cacheUp, impala_auth, req, regPw, streak, admitted, mfaVars, wrapperVars>>

(* Environment of /mfa *)
\* the delivery collaborator stores a fresh challenge for the account
IssueSmsChallenge(account_id, code) ==
  /\ sms_store[account_id] # code
  /\ sms_store' = [sms_store EXCEPT ![account_id] = code]
  /\ smsUses' = [smsUses EXCEPT ![account_id] = 0]
  /\ issued' = [issued EXCEPT ![account_id] = @ \cup {code}]
  /\ UNCHANGED <<coreVars, impala_mfa, generated, wrapperVars>>

\* an operator disables an enrollment row
DisableEnrollment(account_id, mfa_type) ==
  /\ \E r \in Enrollments(impala_mfa, account_id, mfa_type) : r.enabled
  /\ impala_mfa' = {IF r.account_id = account_id /\ r.mfa_type = mfa_type
                      THEN [r EXCEPT !.enabled = FALSE] ELSE r : r \in impala_mfa}
  /\ UNCHANGED <<coreVars, sms_store, generated, smsUses, issued, wrapperVars>>

(* Requests to /mfa the model presents *)
\* how many time steps before and after the current one a submitted code may belong to
MaxDrift == 2

\* codes of the secrets handed out so far, for the steps around the current one
TotpCodes(t) ==
  {generate(secret, current_step(t) + d) : secret \in generated, d \in (0 - MaxDrift)..MaxDrift}

SubmittedCodes(t) == TotpCodes(t) \cup {EmptyCode}

StartEnroll(c) ==
  \E a \in Accounts, ty \in MfaTypes, ph \in Phones \cup {NoPhone} :
    \E secret \in (IF ty = "totp" THEN Secrets ELSE {NoSecret}) :
      EnrollStart(c, a, ty, ph, secret)

StartVerify(c) ==
  \E a \in Accounts, ty \in {"totp", "push"}, code \in SubmittedCodes(now) :
    VerifyStart(c, a, ty, code)

StartMainVerify(c) ==
  \E a \in Accounts, ty \in {"totp", "push"}, code \in SubmittedCodes(now) :
    MainVerifyStart(c, a, ty, code)

TotpStep(c) ==
  \/ \E dbOk \in BOOLEAN : EnrollUpsert(c, dbOk)
  \/ \E dbOk \in BOOLEAN : VerifyQuery(c, dbOk)
  \/ \E dbOk \in BOOLEAN : MainVerifyQuery(c, dbOk)

SmsStep(c) ==
  \/ \E dbOk \in BOOLEAN : EnrollUpsert(c, dbOk)
  \/ \E dbOk \in BOOLEAN : VerifyQuery(c, dbOk)
  \/ VerifySmsConn(c) \/ VerifySmsGet(c) \/ VerifySmsDel(c)

(* ------------------------------------------------------------------ *)
(* SpecMfa: enrollment and TOTP verification, one request at a time;   *)
(* any query of the enrollment table may fail; between requests rows   *)
(* are disabled and time passes.                                       *)
(* ------------------------------------------------------------------ *)
NextMfa ==
  \/ Budget /\ StartEnroll(1)
  \/ Budget /\ StartVerify(1)
  \/ Budget /\ StartMainVerify(1)
  \/ TotpStep(1)
  \/ Quiescent /\ \E a \in Accounts, ty \in MfaTypes : DisableEnrollment(a, ty)
  \/ Quiescent /\ Tick

SpecMfa == Init /\ [][NextMfa]_vars

(* ------------------------------------------------------------------ *)
(* SpecMfaRace: SMS enrollment and verification for one account, calls *)
(* interleaved at every await.                                         *)
(* ------------------------------------------------------------------ *)
NextMfaRace ==
  \/ \E c \in Calls : Budget /\ EnrollStart(c, "acct", "sms", CHOOSE ph \in Phones : TRUE, NoSecret)
  \/ \E c \in Calls, code \in SmsCodes : Budget /\ VerifyStart(c, "acct", "sms", code)
  \/ \E c \in Calls : SmsStep(c)
  \/ \E code \in SmsCodes : IssueSmsChallenge("acct", code)

SpecMfaRace == Init /\ [][NextMfaRace]_vars

(* ------------------------------------------------------------------ *)
(* SpecStore: /authenticate, the password flow of /token and the MFA   *)
(* endpoints for every account and password, in every call slot and    *)
(* interleaved at every await; any query may fail.                     *)
(* ------------------------------------------------------------------ *)
NextStore ==
  \E c \in Calls :
    \/ Budget /\ StartAuth(c)
    \/ Budget /\ StartTokenPassword(c)
    \/ Budget /\ StartEnroll(c)
    \/ Budget /\ StartVerify(c)
    \/ AuthStep(c) \/ TokenStep(c)
    \/ \E dbOk \in BOOLEAN : EnrollUpsert(c, dbOk)
    \/ \E dbOk \in BOOLEAN : VerifyQuery(c, dbOk)

SpecStore == Init /\ [][NextStore]_vars

(* ------------------------------------------------------------------ *)
(* SpecRefresh: /authenticate and both flows of /token for the one     *)
(* account, one request at a time, any number of them; the refresh     *)
(* flow is presented every token of PresentedTokens.                   *)
(* ------------------------------------------------------------------ *)
NextRefresh ==
  \/ \E p \in LongPasswords : AuthStart(1, "acct", p) /\ UNCHANGED nreq
  \/ \E p \in LongPasswords : TokenStart(1, "acct", p, NoToken) /\ UNCHANGED nreq
  \/ \E tok \in PresentedTokens(now) :
       TokenStart(1, "", EmptyPassword, tok) /\ UNCHANGED nreq
  \/ AuthStepUp(1) \/ TokenStep(1)

SpecRefresh == Init /\ [][NextRefresh]_vars

(* ------------------------------------------------------------------ *)
(* SpecOutage: /authenticate for the one account, one request at a     *)
(* time, every query of the store answered; Redis may go away between  *)
(* the INCR and the EXPIRE of a call and comes back between requests;  *)
(* time passes between requests.                                       *)
(* ------------------------------------------------------------------ *)
\* a call has sent its INCR and not yet its EXPIRE
BetweenIncrAndExpire ==
  \E c \in Calls : pc[c] \in {"auth_rate_expire", "auth_fail_expire"}

NextOutage ==
  \/ \E p \in LongPasswords : AuthStart(1, "acct", p) /\ UNCHANGED nreq
  \/ AuthStepUp(1)
  \/ BetweenIncrAndExpire /\ CacheOutage
  \/ Quiescent /\ CacheRecovery
  \/ Quiescent /\ Tick

SpecOutage == Init /\ [][NextOutage]_vars

(* ------------------------------------------------------------------ *)
(* SpecUnlock: /authenticate for the one account, Redis and the store  *)
(* answering; the requests come one after the other (a request starts  *)
(* when no call is in flight); those made while the failure counter is *)
(* at the threshold come on the second connection, the others on the   *)
(* first; time passes between requests.                                *)
(* ------------------------------------------------------------------ *)
LockedAccount == cache[lockout_key("acct")].count >= LOCKOUT_THRESHOLD

NextUnlock ==
  \/ \E p \in LongPasswords :
       Quiescent /\ ~LockedAccount /\ AuthStart(1, "acct", p) /\ UNCHANGED nreq
  \/ \E p \in LongPasswords :
       Quiescent /\ LockedAccount /\ AuthStart(2, "acct", p) /\ UNCHANGED nreq
  \/ \E c \in Calls : AuthStepUp(c)
  \/ Quiescent /\ Tick

SpecUnlock == Init /\ [][NextUnlock]_vars

(* ------------------------------------------------------------------ *)
(* SpecReadmit: the rate limiters over time, as SpecRateWindow, with    *)
(* the requests that find their counter at the maximum coming on the   *)
(* second connection and the others on the first.                      *)
(* ------------------------------------------------------------------ *)
AtMax(key) == cache[key].count >= RATE_LIMIT_MAX_REQUESTS

NextReadmit ==
  \/ /\ Quiescent /\ NotAdmittedNow(rate_key_auth("acct")) /\ ~AtMax(rate_key_auth("acct"))
     /\ AuthStart(1, "acct", RatePassword) /\ UNCHANGED nreq
  \/ /\ Quiescent /\ AtMax(rate_key_auth("acct"))
     /\ AuthStart(2, "acct", RatePassword) /\ UNCHANGED nreq
  \/ /\ Quiescent /\ NotAdmittedNow(rate_key_token("acct")) /\ ~AtMax(rate_key_token("acct"))
     /\ TokenStart(1, "acct", RatePassword, NoToken) /\ UNCHANGED nreq
  \/ /\ Quiescent /\ AtMax(rate_key_token("acct"))
     /\ TokenStart(2, "acct", RatePassword, NoToken) /\ UNCHANGED nreq
  \/ \E c \in Calls : AuthPassStep(c) \/ TokenStep(c)
  \/ Quiescent /\ Elapse(GapSecs)
  \/ Quiescent /\ Elapse(RATE_LIMIT_WINDOW_SECS)

SpecReadmit == Init /\ [][NextReadmit]_vars

(* ------------------------------------------------------------------ *)
(* SpecBearer: the tokens and where they are taken.  The first         *)
(* connection registers the account and obtains tokens from /token     *)
(* (MaxRequests requests);                                             *)
(* the second presents a token, one the server issued to the first or  *)
(* any other, to /token or to a protected route.  Redis answers; the   *)
(* clock stands (the presented tokens have every age).                 *)
(* ------------------------------------------------------------------ *)
\* the tokens in the response held by call c
IssuedTokens(c) ==
  IF pc[c] = "done" /\ req[c].op = "token" /\ resp[c].kind = "ok"
    THEN {resp[c].refresh_token, resp[c].temporal_token} \ {NoToken}
    ELSE {}

NextBearer ==
  \/ Budget /\ \E p \in LongPasswords : AuthStart(1, "acct", p)
  \/ Budget /\ \E p \in LongPasswords : TokenStart(1, "acct", p, NoToken)
  \/ Budget /\ \E tok \in IssuedTokens(1) \cup IssuedTokens(2) :
                 TokenStart(1, "", EmptyPassword, tok)
  \/ \E tok \in PresentedTokens(now) \cup IssuedTokens(1) :
       TokenStart(2, "", EmptyPassword, tok) /\ UNCHANGED nreq
  \/ \E tok \in PresentedTokens(now) \cup IssuedTokens(1) \cup {NoToken} :
       ProtectedStart(2, tok) /\ UNCHANGED nreq
  \/ AuthStepUp(1) \/ TokenStep(1)

SpecBearer == Init /\ [][NextBearer]_vars

(* ------------------------------------------------------------------ *)
(* SpecReplay: TOTP enrollment of the one account on the first         *)
(* connection and TOTP verification on both, one request at a time;    *)
(* the enrollment table answers; between requests one TOTP step (30 s) *)
(* passes, MaxTotpSteps times.                                         *)
(* ------------------------------------------------------------------ *)
\* number of TOTP steps that pass in one behaviour of SpecReplay
MaxTotpSteps == 3

NextReplay ==
  \/ Quiescent /\ Budget
       /\ \E secret \in Secrets : EnrollStart(1, "acct", "totp", NoPhone, secret)
  \/ \E c \in Calls, code \in SubmittedCodes(now) :
       Quiescent /\ VerifyStart(c, "acct", "totp", code) /\ UNCHANGED nreq
  \/ \E c \in Calls : EnrollUpsert(c, TRUE) \/ VerifyQuery(c, TRUE)
  \/ Quiescent /\ now < StartTime + MaxTotpSteps * TOTP_STEP_SECS /\ Elapse(TOTP_STEP_SECS)

SpecReplay == Init /\ [][NextReplay]_vars

(* ------------------------------------------------------------------ *)
(* MultisigAssetWrapper  (impala-soroban/integration-test/src/lib.rs)  *)
(*                                                                    *)
(* An invocation of the contract is one transaction: it runs to its   *)
(* end or panics, and a panic reverts every write it made.  Each      *)
(* entry point is one action; its outcome operator is the sequence of *)
(* checks of the code, in the code's order, and yields Ok or the      *)
(* message of the first panic.                                        *)
(* ------------------------------------------------------------------ *)
\* ledger seconds added by one LedgerClose, and the number of them in one behaviour
LedgerSecs == 5
MaxLedgers == 2
\* timelocks scheduled in one behaviour
MaxTimeLocks == 1

SignerLists == {<<>>, <<"s1">>, <<"s1", "s1">>, <<"s1", "s2">>, <<"s3">>}
\* the addresses whose authorization a transaction carries
SignedSets == {Addresses, Addresses \ {"s2"}}
Amounts == {0, 1}
Delays == {5, 10, MAX_LOCK_DURATION + 1}
TimeLockIds == 0..MaxTimeLocks
InitSigners == {<<"s1", "s2">>}
Thresholds == 0..3
\* the holders of wrapped balances that schedules name, and the (from, to) of transfers
Holders == {"s1", "s2"}
TransferPairs == {<<"s1", "s2">>, <<"s2", "s1">>, <<"s1", "s1">>}
\* the (new_signers, new_threshold) of rotations
Rotations ==
  {<<<<>>, 1>>, <<<<"s2", "s3">>, 0>>, <<<<"s2", "s3">>, 1>>, <<<<"s2", "s3">>, 2>>}
MinLockDurations == {10}

Elements(list) == {list[i] : i \in 1..Len(list)}

MultisigConfig(signers, threshold) == [signers |-> signers, threshold |-> threshold]

TimeLock(operation_type, signers, sender, recipient, amount, unlock_time, executed) ==
  [operation_type |-> operation_type, signers |-> signers, sender |-> sender,
   recipient |-> recipient, amount |-> amount, unlock_time |-> unlock_time,
   executed |-> executed]

\* DataKey::Initialized is written together with a configuration whose
\* threshold is at least one, and no entry point removes either
Initialized == config # NoConfig

\* DataKey::TimeLock(timelock_id) is present
HasTimeLock(timelock_id) == timelock_id + 1 \in 1..Len(timelocks)
get_timelock(timelock_id) == timelocks[timelock_id + 1]

require_not_paused_Never == Ok

require_not_paused == IF paused THEN "Contract is paused" ELSE Ok

\* the loop over the provided signers: membership, then require_auth, one signer at a time
RECURSIVE authorize_each(_, _, _)
authorize_each(provided_signers, authorized, signed) ==
  IF provided_signers = <<>> THEN Ok
  ELSE IF Head(provided_signers) \notin authorized THEN "Signer not authorized"
  ELSE IF Head(provided_signers) \notin signed THEN HostAuth
  ELSE authorize_each(Tail(provided_signers), authorized, signed)

verify_multisig_No_Duplicate_Check(provided_signers, signed) ==
  IF ~Initialized THEN HostUnwrap
  ELSE IF Len(provided_signers) < config.threshold THEN "Insufficient signers"
  ELSE authorize_each(provided_signers, Elements(config.signers), signed)

verify_multisig(provided_signers, signed) ==
  IF ~Initialized THEN HostUnwrap
  ELSE IF Len(provided_signers) < config.threshold THEN "Insufficient signers"
  ELSE IF \E i, j \in 1..Len(provided_signers) :
            i < j /\ provided_signers[i] = provided_signers[j]
    THEN "Duplicate signer detected"
  ELSE authorize_each(provided_signers, Elements(config.signers), signed)

\* token::Client::transfer: the token contract refuses to overdraw
token_transfer_ok(from, amount) == token_balance[from] >= amount
token_transfer(from, to, amount) ==
  [[token_balance EXCEPT ![from] = @ - amount] EXCEPT ![to] = @ + amount]

\* what an invocation naming timelock id finds of it
Found(op, signers, id, result) ==
  LET has == id # NoId /\ HasTimeLock(id) IN
  Invocation(op, signers, id, result, config, paused,
             has /\ get_timelock(id).executed,
             has /\ timestamp < get_timelock(id).unlock_time)

\* the invocation ran to its end: last records it; the caller states the writes
Completed(op, signers, id) == last' = Found(op, signers, id, Ok)

\* the invocation panicked: nothing it wrote remains
Reverted(op, signers, id, message) ==
  /\ last' = Found(op, signers, id, message)
  /\ UNCHANGED <<storage, history, ever_paused, retired>>

initialize_outcome(signers, threshold) ==
  IF Initialized THEN "Already initialized"
  ELSE IF threshold = 0 \/ threshold > Len(signers) THEN "Invalid threshold"
  ELSE Ok

initialize(signers, threshold, min_duration) ==
  LET r == initialize_outcome(signers, threshold) IN
  /\ IF r # Ok THEN Reverted("initialize", signers, NoId, r)
     ELSE /\ config' = MultisigConfig(signers, threshold)
          /\ total_wrapped' = 0
          /\ min_lock_duration' = min_duration
          /\ timelocks' = <<>>
          /\ Completed("initialize", signers, NoId)
          /\ UNCHANGED <<paused, balance, token_balance, history, ever_paused, retired>>
  /\ UNCHANGED <<coreVars, mfaVars, timestamp>>

pause(signers, signed) ==
  LET r == verify_multisig(signers, signed) IN
  /\ IF r # Ok THEN Reverted("pause", signers, NoId, r)
     ELSE /\ paused' = TRUE
          /\ ever_paused' = TRUE
          /\ Completed("pause", signers, NoId)
          /\ UNCHANGED <<config, balance, total_wrapped, min_lock_duration, timelocks,
                         token_balance, history, retired>>
  /\ UNCHANGED <<coreVars, mfaVars, timestamp>>

unpause(signers, signed) ==
  LET r == verify_multisig(signers, signed) IN
  /\ IF r # Ok THEN Reverted("unpause", signers, NoId, r)
     ELSE /\ paused' = FALSE
          /\ Completed("unpause", signers, NoId)
          /\ UNCHANGED <<config, balance, total_wrapped, min_lock_duration, timelocks,
                         token_balance, history, ever_paused, retired>>
  /\ UNCHANGED <<coreVars, mfaVars, timestamp>>

rotate_signers_outcome(current_signers, new_signers, new_threshold, signed) ==
  IF Len(new_signers) = 0 THEN "New signers must not be empty"
  ELSE IF new_threshold = 0 \/ new_threshold > Len(new_signers)
    THEN "Invalid new threshold"
  ELSE verify_multisig(current_signers, signed)

\* the configuration a successful rotation stores
rotated_config_Keeps_Old_Signers(new_signers, new_threshold) ==
  MultisigConfig(config.signers \o new_signers, new_threshold)

rotated_config(new_signers, new_threshold) == MultisigConfig(new_signers, new_threshold)

rotate_signers(current_signers, new_signers, new_threshold, signed) ==
  LET r == rotate_signers_outcome(current_signers, new_signers, new_threshold, signed)
      inv == [Found("rotate_signers", current_signers, NoId, r)
                EXCEPT !.requested = MultisigConfig(new_signers, new_threshold)] IN
  /\ last' = inv
  /\ IF r # Ok THEN UNCHANGED <<storage, history, ever_paused, retired>>
     ELSE /\ config' = rotated_config(new_signers, new_threshold)
          /\ retired' = (retired \cup Elements(config.signers)) \ Elements(new_signers)
          /\ UNCHANGED <<paused, balance, total_wrapped, min_lock_duration, timelocks,
                         token_balance, history, ever_paused>>
  /\ UNCHANGED <<coreVars, mfaVars, timestamp>>

wrap_outcome(signers, amount, signed) ==
  IF require_not_paused # Ok THEN require_not_paused
  ELSE IF amount <= 0 THEN "Amount must be positive"
  ELSE IF verify_multisig(signers, signed) # Ok THEN verify_multisig(signers, signed)
  ELSE IF ~token_transfer_ok(signers[1], amount) THEN HostToken
  ELSE Ok

wrap(signers, amount, signed) ==
  LET r == wrap_outcome(signers, amount, signed) IN
  /\ IF r # Ok THEN Reverted("wrap", signers, NoId, r)
     ELSE /\ token_balance' = token_transfer(signers[1], CONTRACT, amount)
          /\ balance' = [balance EXCEPT ![signers[1]] = @ + amount]
          /\ total_wrapped' = total_wrapped + amount
          /\ Completed("wrap", signers, NoId)
          /\ UNCHANGED <<config, paused, min_lock_duration, timelocks, history, ever_paused, retired>>
  /\ UNCHANGED <<coreVars, mfaVars, timestamp>>

\* what the two schedule functions share after their own argument checks
schedule_outcome(signers, holder, amount, delay_seconds, signed, insufficient) ==
  IF verify_multisig(signers, signed) # Ok THEN verify_multisig(signers, signed)
  ELSE IF delay_seconds < min_lock_duration THEN "Delay too short"
  ELSE IF delay_seconds > MAX_LOCK_DURATION THEN "Delay exceeds maximum lock duration"
  ELSE IF balance[holder] < amount THEN insufficient
  ELSE Ok

\* the timelock is stored under NextTimeLockId, which then moves on
Schedule(timelock) ==
  /\ timelocks' = Append(timelocks, timelock)
  /\ history' = Append(history, [scheduled_at |-> timestamp, effects |-> 0,
                                 effect_at |-> NoId])
  /\ UNCHANGED <<config, paused, balance, total_wrapped, min_lock_duration,
                 token_balance, ever_paused, retired>>

schedule_unwrap_outcome(signers, recipient, amount, delay_seconds, signed) ==
  IF require_not_paused # Ok THEN require_not_paused
  ELSE IF amount <= 0 THEN "Amount must be positive"
  ELSE schedule_outcome(signers, recipient, amount, delay_seconds, signed,
                        "Insufficient wrapped balance")

schedule_unwrap(signers, recipient, amount, delay_seconds, signed) ==
  LET r == schedule_unwrap_outcome(signers, recipient, amount, delay_seconds, signed)
      id == Len(timelocks) IN
  /\ Len(timelocks) < MaxTimeLocks
  /\ IF r # Ok THEN Reverted("schedule_unwrap", signers, NoId, r)
     ELSE /\ Schedule(TimeLock(1, signers, recipient, recipient, amount,
                               timestamp + delay_seconds, FALSE))
          /\ Completed("schedule_unwrap", signers, id)
  /\ UNCHANGED <<coreVars, mfaVars, timestamp>>

schedule_transfer_outcome(signers, from, to, amount, delay_seconds, signed) ==
  IF require_not_paused # Ok THEN require_not_paused
  ELSE IF amount <= 0 THEN "Amount must be positive"
  ELSE IF from = to THEN "Self-transfer not allowed"
  ELSE schedule_outcome(signers, from, amount, delay_seconds, signed,
                        "Insufficient balance")

schedule_transfer(signers, from, to, amount, delay_seconds, signed) ==
  LET r == schedule_transfer_outcome(signers, from, to, amount, delay_seconds, signed)
      id == Len(timelocks) IN
  /\ Len(timelocks) < MaxTimeLocks
  /\ IF r # Ok THEN Reverted("schedule_transfer", signers, NoId, r)
     ELSE /\ Schedule(TimeLock(2, signers, from, to, amount,
                               timestamp + delay_seconds, FALSE))
          /\ Completed("schedule_transfer", signers, id)
  /\ UNCHANGED <<coreVars, mfaVars, timestamp>>

\* the timelock took effect: it is marked executed and the history counts it
Executed(timelock_id) ==
  /\ timelocks' = [timelocks EXCEPT ![timelock_id + 1].executed = TRUE]
  /\ history' = [history EXCEPT ![timelock_id + 1] =
                   [@ EXCEPT !.effects = @ + 1, !.effect_at = timestamp]]

execute_unwrap_outcome_No_Executed_Check(timelock_id, signed) ==
  IF require_not_paused # Ok THEN require_not_paused
  ELSE IF ~HasTimeLock(timelock_id) THEN "Timelock not found"
  ELSE LET timelock == get_timelock(timelock_id) IN
    IF timestamp < timelock.unlock_time THEN "Timelock not expired"
    ELSE IF verify_multisig(timelock.signers, signed) # Ok
      THEN verify_multisig(timelock.signers, signed)
    ELSE IF balance[timelock.recipient] < timelock.amount THEN "Insufficient balance"
    ELSE IF ~token_transfer_ok(CONTRACT, timelock.amount) THEN HostToken
    ELSE Ok

execute_unwrap_outcome(timelock_id, signed) ==
  IF require_not_paused # Ok THEN require_not_paused
  ELSE IF ~HasTimeLock(timelock_id) THEN "Timelock not found"
  ELSE LET timelock == get_timelock(timelock_id) IN
    IF timelock.executed THEN "Already executed"
    ELSE IF timestamp < timelock.unlock_time THEN "Timelock not expired"
    ELSE IF verify_multisig(timelock.signers, signed) # Ok
      THEN verify_multisig(timelock.signers, signed)
    ELSE IF balance[timelock.recipient] < timelock.amount THEN "Insufficient balance"
    ELSE IF ~token_transfer_ok(CONTRACT, timelock.amount) THEN HostToken
    ELSE Ok

execute_unwrap(timelock_id, signed) ==
  LET r == execute_unwrap_outcome(timelock_id, signed) IN
  /\ IF r # Ok THEN Reverted("execute_unwrap", <<>>, timelock_id, r)
     ELSE LET timelock == get_timelock(timelock_id) IN
          /\ Executed(timelock_id)
          /\ balance' = [balance EXCEPT ![timelock.recipient] = @ - timelock.amount]
          /\ token_balance' = token_transfer(CONTRACT, timelock.recipient, timelock.amount)
          /\ total_wrapped' = total_wrapped - timelock.amount
          /\ Completed("execute_unwrap", <<>>, timelock_id)
          /\ UNCHANGED <<config, paused, min_lock_duration, ever_paused, retired>>
  /\ UNCHANGED <<coreVars, mfaVars, timestamp>>

execute_transfer_outcome_No_Expiry_Check(timelock_id, signed) ==
  IF require_not_paused # Ok THEN require_not_paused
  ELSE IF ~HasTimeLock(timelock_id) THEN "Timelock not found"
  ELSE LET timelock == get_timelock(timelock_id) IN
    IF timelock.executed THEN "Already executed"
    ELSE IF verify_multisig(timelock.signers, signed) # Ok
      THEN verify_multisig(timelock.signers, signed)
    ELSE IF balance[timelock.sender] < timelock.amount THEN "Insufficient balance"
    ELSE Ok

execute_transfer_outcome(timelock_id, signed) ==
  IF require_not_paused # Ok THEN require_not_paused
  ELSE IF ~HasTimeLock(timelock_id) THEN "Timelock not found"
  ELSE LET timelock == get_timelock(timelock_id) IN
    IF timelock.executed THEN "Already executed"
    ELSE IF timestamp < timelock.unlock_time THEN "Timelock not expired"
    ELSE IF verify_multisig(timelock.signers, signed) # Ok
      THEN verify_multisig(timelock.signers, signed)
    ELSE IF balance[timelock.sender] < timelock.amount THEN "Insufficient balance"
    ELSE Ok

\* both balances are read before either is written, the recipient's is written last
execute_transfer(timelock_id, signed) ==
  LET r == execute_transfer_outcome(timelock_id, signed) IN
  /\ IF r # Ok THEN Reverted("execute_transfer", <<>>, timelock_id, r)
     ELSE LET timelock == get_timelock(timelock_id)
              new_from == balance[timelock.sender] - timelock.amount
              new_to == balance[timelock.recipient] + timelock.amount IN
          /\ Executed(timelock_id)
          /\ balance' = [[balance EXCEPT ![timelock.sender] = new_from]
                           EXCEPT ![timelock.recipient] = new_to]
          /\ Completed("execute_transfer", <<>>, timelock_id)
          /\ UNCHANGED <<config, paused, total_wrapped, min_lock_duration,
                         token_balance, ever_paused, retired>>
  /\ UNCHANGED <<coreVars, mfaVars, timestamp>>

cancel_timelock_outcome(signers, timelock_id, signed) ==
  IF verify_multisig(signers, signed) # Ok THEN verify_multisig(signers, signed)
  ELSE IF ~HasTimeLock(timelock_id) THEN "Timelock not found"
  ELSE IF get_timelock(timelock_id).executed THEN "Already executed"
  ELSE Ok

\* a cancelled timelock is marked executed without having taken effect
cancel_timelock(signers, timelock_id, signed) ==
  LET r == cancel_timelock_outcome(signers, timelock_id, signed) IN
  /\ IF r # Ok THEN Reverted("cancel_timelock", signers, timelock_id, r)
     ELSE /\ timelocks' = [timelocks EXCEPT ![timelock_id + 1].executed = TRUE]
          /\ Completed("cancel_timelock", signers, timelock_id)
          /\ UNCHANGED <<config, paused, balance, total_wrapped, min_lock_duration,
                         token_balance, history, ever_paused, retired>>
  /\ UNCHANGED <<coreVars, mfaVars, timestamp>>

\* a ledger closes: the timestamp the next invocation reads has advanced
LedgerClose ==
  /\ timestamp < LedgerSecs * MaxLedgers
  /\ timestamp' = timestamp + LedgerSecs
  /\ UNCHANGED <<coreVars, mfaVars, storage, last, history, ever_paused, retired>>

(* ------------------------------------------------------------------ *)
(* SpecWrapper: the contract from deployment on, every entry point     *)
(* invoked with every argument of the input sets                       *)
(* ------------------------------------------------------------------ *)
NextWrapper ==
  \/ \E s \in InitSigners, t \in Thresholds, d \in MinLockDurations : initialize(s, t, d)
  \/ \E s \in SignerLists, au \in SignedSets : pause(s, au)
  \/ \E s \in SignerLists, au \in SignedSets : unpause(s, au)
  \/ \E s \in SignerLists, n \in Rotations, au \in SignedSets :
       rotate_signers(s, n[1], n[2], au)
  \/ \E s \in SignerLists, a \in Amounts, au \in SignedSets : wrap(s, a, au)
  \/ \E s \in SignerLists, r \in Holders, a \in Amounts, d \in Delays, au \in SignedSets :
       schedule_unwrap(s, r, a, d, au)
  \/ \E s \in SignerLists, ft \in TransferPairs, a \in Amounts, d \in Delays,
        au \in SignedSets :
       schedule_transfer(s, ft[1], ft[2], a, d, au)
  \/ \E id \in TimeLockIds, au \in SignedSets : execute_unwrap(id, au)
  \/ \E id \in TimeLockIds, au \in SignedSets : execute_transfer(id, au)
  \/ \E s \in SignerLists, id \in TimeLockIds, au \in SignedSets : cancel_timelock(s, id, au)
  \/ LedgerClose

SpecWrapper == Init /\ [][NextWrapper]_vars

(* ================================================================== *)
(* Properties                                                          *)
(* ================================================================== *)
Done(c) == pc[c] = "done"
AuthOps == {"authenticate", "main_authenticate"}

\* the rate counter and the failure counter were below their limits on arrival
BelowLimits(c) ==
  /\ obs[c].rate0 < RATE_LIMIT_MAX_REQUESTS
  /\ obs[c].lock0 < LOCKOUT_THRESHOLD

\* a finished /authenticate call on an existing account, long enough password,
\* both backends healthy throughout, below both limits on arrival
HealthyAuthCall(c, ops) ==
  /\ Done(c)
  /\ req[c].op \in ops
  /\ req[c].account_id \in impala_account
  /\ req[c].password.len >= 8
  /\ ~obs[c].cacheFail /\ ~obs[c].dbFail
  /\ BelowLimits(c)

FirstUseContract(c) ==
  /\ resp[c].kind = "ok"
  /\ obs[c].cred0 = <<>> => resp[c].success /\ resp[c].action = "registered"
  /\ obs[c].cred0 # <<>> /\ req[c].password = obs[c].regPw0 =>
       resp[c].success /\ resp[c].action = "authenticated"
  /\ obs[c].cred0 # <<>> /\ req[c].password # obs[c].regPw0 =>
       ~resp[c].success /\ resp[c].action = ""

\* C1: on an existing account without a Credential the first authenticate
\* call registers (success, action "registered"); a later call with the
\* registered password returns success, action "authenticated"; a later call
\* with another password returns success=false with action "".  Stated of
\* every handler that serves /authenticate.
C1_FirstUseThenVerify ==
  \A c \in Calls : HealthyAuthCall(c, AuthOps) => FirstUseContract(c)

\* C1 restricted to handlers/authenticate.rs
C1_HandlerFirstUseThenVerify ==
  \A c \in Calls : HealthyAuthCall(c, {"authenticate"}) => FirstUseContract(c)

\* C2: after 5 consecutive recorded wrong-password outcomes for an account
\* (no success and no expiry of the counter in between) the next authenticate
\* call that is not rate limited returns the lockout response, whatever
\* password it carries.
C2_LockedAfterFiveFailures ==
  \A c \in Calls :
    ( /\ Done(c) /\ req[c].op = "authenticate"
      /\ obs[c].streak0 >= 5
      /\ ~obs[c].cacheFail /\ ~obs[c].expired
      /\ obs[c].rate0 < RATE_LIMIT_MAX_REQUESTS )
    => resp[c] = LockedResponse

\* the sixth call carries the registered password and is answered with the lockout
C2_Witness ==
  \E c \in Calls :
    /\ Done(c) /\ req[c].op = "authenticate"
    /\ obs[c].streak0 >= 5 /\ ~obs[c].cacheFail /\ ~obs[c].expired
    /\ obs[c].rate0 < RATE_LIMIT_MAX_REQUESTS
    /\ req[c].password = regPw[req[c].account_id]
    /\ resp[c] = LockedResponse

\* finished first-time calls (no Credential on arrival) whose store queries all answered
FirstTimeCalls ==
  {c \in Calls : Done(c) /\ req[c].op = "authenticate" /\ obs[c].cred0 = <<>>
                 /\ ~obs[c].dbFail}

Conflict(c) == resp[c] = InternalError("Database error") /\ obs[c].conflict

RateLimitedPurpose(c) ==
  \/ req[c].op = "authenticate"
  \/ req[c].op = "token" /\ req[c].refresh_token = NoToken
       /\ req[c].username # "" /\ req[c].password.len > 0

\* C4: once 10 calls of a purpose for a subject have been admitted and the
\* counter has not expired, the next call of that purpose for that subject
\* returns RateLimited (authenticate by account_id, the password flow of
\* issueToken by username).
C4_EleventhCallRateLimited ==
  \A c \in Calls :
    ( /\ Done(c) /\ RateLimitedPurpose(c)
      /\ obs[c].admitted0 >= 10
      /\ ~obs[c].cacheFail /\ ~obs[c].expired )
    => resp[c] = RateLimited

\* the password flow is rate limited for the subject while authenticate is too
C4_Witness ==
  \E c \in Calls :
    /\ Done(c) /\ req[c].op = "token" /\ RateLimitedPurpose(c)
    /\ obs[c].admitted0 >= 10 /\ ~obs[c].cacheFail
    /\ resp[c] = RateLimited
    /\ admitted[rate_key_auth(req[c].username)] >= 10
    /\ cache[rate_key_auth(req[c].username)].count >= 10

\* C5: a call during which Redis was never reachable is neither rate limited
\* nor locked out and gets no error: it registers when there is no
\* Credential, authenticates when the password verifies, and is rejected
\* with "Invalid credentials" when it does not.
C5_FailOpen ==
  \A c \in Calls :
    ( /\ Done(c) /\ req[c].op = "authenticate"
      /\ obs[c].cacheFail /\ ~obs[c].cacheOk
      /\ ~obs[c].dbFail
      /\ req[c].account_id \in impala_account /\ req[c].password.len >= 8 )
    => /\ obs[c].cred0 = <<>> => resp[c] = Registered
       /\ obs[c].cred0 # <<>> /\ verify_password(req[c].password, Head(obs[c].cred0))
            => resp[c] = Authenticated
       /\ obs[c].cred0 # <<>> /\ ~verify_password(req[c].password, Head(obs[c].cred0))
            => resp[c] = InvalidCredentials

\* Redis holds a lockout for the account, is unreachable, and the call authenticates
C5_Witness ==
  \E c \in Calls :
    /\ Done(c) /\ req[c].op = "authenticate"
    /\ obs[c].cacheFail /\ ~obs[c].cacheOk
    /\ obs[c].lock0 >= LOCKOUT_THRESHOLD
    /\ resp[c] = Authenticated

\* C6: authenticate for an account_id without an external account returns
\* success=false, "Invalid credentials", action "" -- the same response as a
\* wrong password for an existing Credential.  Stated of every handler that
\* serves /authenticate.
C6_UnknownAccountLooksLikeWrongPassword ==
  \A c \in Calls :
    ( /\ Done(c) /\ req[c].op \in AuthOps
      /\ req[c].password.len >= 8
      /\ ~obs[c].cacheFail /\ ~obs[c].dbFail /\ BelowLimits(c)
      /\ \/ req[c].account_id \notin impala_account
         \/ obs[c].cred0 # <<>> /\ ~verify_password(req[c].password, Head(obs[c].cred0)) )
    => resp[c] = AuthenticateResponse(FALSE, "Invalid credentials", "")

\* C6 restricted to handlers/authenticate.rs
C6_HandlerUnknownAccountLooksLikeWrongPassword ==
  \A c \in Calls :
    ( /\ Done(c) /\ req[c].op = "authenticate"
      /\ req[c].password.len >= 8
      /\ ~obs[c].cacheFail /\ ~obs[c].dbFail /\ BelowLimits(c)
      /\ \/ req[c].account_id \notin impala_account
         \/ obs[c].cred0 # <<>> /\ ~verify_password(req[c].password, Head(obs[c].cred0)) )
    => resp[c] = AuthenticateResponse(FALSE, "Invalid credentials", "")

\* C7: when a query of the credential store fails during authenticate or
\* during the password flow of issueToken, the call returns InternalError,
\* never a response with success=false or success=true.
C7_StoreFailureIsInternalError ==
  \A c \in Calls :
    (Done(c) /\ req[c].op \in {"authenticate", "token"} /\ obs[c].dbFail)
    => resp[c].kind = "err" /\ resp[c].error = "InternalError"

\* the INSERT of a registration failed
C7_Witness ==
  \E c \in Calls :
    /\ Done(c) /\ req[c].op = "authenticate"
    /\ obs[c].dbFail /\ obs[c].failedAt = "auth_insert"
    /\ resp[c] = InternalError("Database error")
    /\ impala_auth[req[c].account_id] = <<>>

\* the presented token carries a signature of the configured secret and has not expired
ValidPresented(c) ==
  /\ req[c].op = "token" /\ req[c].refresh_token # NoToken
  /\ req[c].refresh_token.sig = JWT_SECRET
  /\ req[c].refresh_token.claims.exp >= obs[c].now0

\* C8: issueToken with a valid refresh token returns success with a temporal
\* token for the same subject, token_type "temporal", issued at the current
\* time and expiring 3600 seconds later.
C8_RefreshYieldsTemporal ==
  \A c \in Calls :
    (Done(c) /\ ValidPresented(c) /\ req[c].refresh_token.claims.token_type = "refresh")
    => /\ resp[c].kind = "ok" /\ resp[c].success
       /\ resp[c].refresh_token = NoToken
       /\ resp[c].temporal_token # NoToken
       /\ resp[c].temporal_token.sig = JWT_SECRET
       /\ resp[c].temporal_token.claims.sub = req[c].refresh_token.claims.sub
       /\ resp[c].temporal_token.claims.token_type = "temporal"
       /\ resp[c].temporal_token.claims.iat = obs[c].now0
       /\ resp[c].temporal_token.claims.exp = resp[c].temporal_token.claims.iat + 3600

\* a refresh token of another subject than the request's username is exchanged
C8_Witness ==
  \E c \in Calls :
    /\ Done(c) /\ ValidPresented(c) /\ req[c].refresh_token.claims.token_type = "refresh"
    /\ req[c].refresh_token.claims.sub = "ghost" /\ req[c].username = "acct"
    /\ obs[c].now0 > StartTime
    /\ resp[c].kind = "ok" /\ resp[c].success
    /\ resp[c].temporal_token.claims.sub = "ghost"

C10_WrongTypeIsNotUnauthorized ==
  \A c \in Calls :
    (Done(c) /\ ValidPresented(c) /\ req[c].refresh_token.claims.token_type # "refresh")
    => /\ resp[c] # Unauthorized
       /\ resp[c] = [kind |-> "ok", success |-> FALSE, message |-> "Invalid token type",
                     refresh_token |-> NoToken, temporal_token |-> NoToken]

\* a valid temporal token is presented to the refresh flow
C10_Witness ==
  \E c \in Calls :
    /\ Done(c) /\ ValidPresented(c)
    /\ req[c].refresh_token.claims.token_type = "temporal"
    /\ resp[c].kind = "ok" /\ ~resp[c].success
    /\ resp[c].message = "Invalid token type"

\* a finished /token call that took the refresh flow / the password flow
RefreshFlowCall(c) == Done(c) /\ req[c].op = "token" /\ req[c].refresh_token # NoToken
PasswordFlowCall(c) ==
  /\ Done(c) /\ req[c].op = "token" /\ req[c].refresh_token = NoToken
  /\ req[c].username # "" /\ req[c].password.len > 0

\* C11: every issueToken response with success=true carries exactly one
\* token (the temporal token in the refresh flow, the refresh token in the
\* password flow); every response with success=false carries none.
C11_ExactlyOneTokenOnSuccess ==
  \A c \in Calls :
    (Done(c) /\ req[c].op = "token" /\ resp[c].kind = "ok")
    => /\ resp[c].success /\ req[c].refresh_token # NoToken
            => resp[c].temporal_token # NoToken /\ resp[c].refresh_token = NoToken
       /\ resp[c].success /\ req[c].refresh_token = NoToken
            => resp[c].refresh_token # NoToken /\ resp[c].temporal_token = NoToken
       /\ ~resp[c].success
            => resp[c].refresh_token = NoToken /\ resp[c].temporal_token = NoToken

\* the password flow succeeded and returned a refresh token for the username
C11_Witness ==
  \E c \in Calls :
    /\ PasswordFlowCall(c) /\ resp[c].kind = "ok" /\ resp[c].success
    /\ resp[c].refresh_token # NoToken /\ resp[c].temporal_token = NoToken
    /\ resp[c].refresh_token.claims.sub = req[c].username
    /\ resp[c].refresh_token.claims.token_type = "refresh"

\* C12: in the password flow a username without Credential and a username
\* whose Credential does not match the password get the identical response
\* success=false, "Invalid credentials", no tokens.
C12_UnknownUserLooksLikeWrongPassword ==
  \A c \in Calls :
    ( /\ PasswordFlowCall(c)
      /\ ~obs[c].dbFail /\ resp[c] # RateLimited
      /\ \/ impala_auth[req[c].username] = <<>>
         \/ ~verify_password(req[c].password, Head(impala_auth[req[c].username])) )
    => resp[c] = [kind |-> "ok", success |-> FALSE, message |-> "Invalid credentials",
                  refresh_token |-> NoToken, temporal_token |-> NoToken]

\* a username that has a Credential is refused for a wrong password, with the
\* response a username without Credential gets
C12_Witness ==
  \E c \in Calls :
    /\ PasswordFlowCall(c) /\ ~obs[c].dbFail
    /\ impala_auth[req[c].username] # <<>>
    /\ ~verify_password(req[c].password, Head(impala_auth[req[c].username]))
    /\ impala_auth["ghost"] = <<>>
    /\ resp[c] = TokenInvalidCredentials

\* a finished POST /mfa/verify call of handlers/mfa.rs for the SMS method
SmsVerifyCall(c) == Done(c) /\ req[c].op = "verify_mfa" /\ req[c].mfa_type = "sms"

\* C13: a stored SMS challenge verifies successfully at most once, also
\* when verifyMfa calls carrying the valid code overlap; a code that was
\* never issued for the account never verifies, and is answered with
\* "Invalid verification code" when the enrollment is found and enabled.
C13_SmsCodeVerifiesAtMostOnce ==
  /\ \A a \in Accounts : smsUses[a] <= 1
  /\ \A c \in Calls :
       (SmsVerifyCall(c) /\ req[c].code \notin issued[req[c].account_id])
       => /\ resp[c] # MfaVerified
          /\ ( /\ ~obs[c].dbFail /\ ~obs[c].cacheFail
               /\ \E r \in obs[c].mfa0 : r.enabled )
             => resp[c] = InvalidCode

\* the part of C13 about codes that were never issued
C13_NeverIssuedCodeFails ==
  \A c \in Calls :
    (SmsVerifyCall(c) /\ req[c].code \notin issued[req[c].account_id])
    => resp[c] # MfaVerified

\* a finished verifyMfa call for the TOTP method whose enrollment query
\* answered, on an enabled enrollment that holds a secret
TotpVerifyCall(c, ops) ==
  /\ Done(c) /\ req[c].op \in ops /\ req[c].mfa_type = "totp"
  /\ ~obs[c].dbFail
  /\ obs[c].mfa0 # {}
  /\ \A r \in obs[c].mfa0 : r.enabled /\ r.secret \in generated

\* the distance in time steps between the step a code of the enrolled
\* secret was computed for and the step of the call
Drift(c) == req[c].code.n - current_step(obs[c].now0)

TotpWindow(c) ==
  \A r \in obs[c].mfa0 :
    req[c].code.src = r.secret =>
      /\ Drift(c) \in (0 - 1)..1 => resp[c].kind = "ok" /\ resp[c].success
      /\ Drift(c) \notin (0 - 1)..1 =>
           /\ resp[c].kind = "ok" /\ ~resp[c].success
           /\ resp[c].message = "Invalid verification code"

\* C14: after enrollMfa(acc, "totp"), verifyMfa with the code of the
\* current 30-second step or of the step before or after it succeeds; a
\* code of a step two or more away is refused with "Invalid verification
\* code".  Stated of every handler that serves /mfa/verify.
C14_TotpAcceptsCurrentStepPlusMinusOne ==
  \A c \in Calls : TotpVerifyCall(c, {"verify_mfa", "main_verify_mfa"}) => TotpWindow(c)

\* C14 restricted to handlers/mfa.rs
C14_HandlerTotpAcceptsCurrentStepPlusMinusOne ==
  \A c \in Calls : TotpVerifyCall(c, {"verify_mfa"}) => TotpWindow(c)

\* handlers/mfa.rs refuses the code of the enrolled secret for the step two ahead
C14_HandlerWitness ==
  \E c \in Calls :
    /\ TotpVerifyCall(c, {"verify_mfa"})
    /\ \E r \in obs[c].mfa0 : req[c].code.src = r.secret
    /\ Drift(c) = 2
    /\ resp[c] = InvalidCode

\* at most one enrollment row for every (account_id, method)
OneRowPerMethod ==
  \A a \in Accounts, ty \in MfaTypes : Cardinality(Enrollments(impala_mfa, a, ty)) <= 1

\* a code of a secret that an earlier enrollment handed out, and that is no
\* longer the enrolled one, is refused
OldSecretRefused ==
  \A c \in Calls :
    ( /\ Done(c) /\ req[c].op = "verify_mfa" /\ req[c].mfa_type = "totp"
      /\ ~obs[c].dbFail
      /\ req[c].code.src \in generated
      /\ \E r \in obs[c].mfa0 : r.enabled
      /\ \A r \in obs[c].mfa0 : r.secret # req[c].code.src )
    => resp[c] = InvalidCode

\* the step that completes a successful enrollment leaves exactly the row of
\* that enrollment for its key: the new secret, enabled
EnrollReplaces ==
  \A c \in Calls :
    ( /\ pc[c] = "mfa_upsert" /\ pc'[c] = "done"
      /\ resp'[c].kind = "ok" /\ resp'[c].success )
    => /\ Enrollments(impala_mfa', req[c].account_id, req[c].mfa_type) =
            { MfaRow(req[c].account_id, req[c].mfa_type,
                     IF req[c].mfa_type = "totp" THEN obs[c].secret ELSE NoSecret,
                     req[c].phone_number, TRUE) }
       /\ req[c].mfa_type = "totp" =>
            \A r \in obs[c].mfa0 : r.secret # obs[c].secret

\* C15: after any sequence of enrollMfa calls the enrollment table holds at
\* most one row per (account_id, method); a successful TOTP re-enrollment
\* replaces the prior secret, so that codes of the old secret no longer
\* verify, and leaves the row enabled.
C15_UpsertKeepsOneEnabledRow ==
  /\ []OneRowPerMethod
  /\ []OldSecretRefused
  /\ [][EnrollReplaces]_vars

\* a TOTP re-enrollment over a disabled row has completed: the row holds the
\* new secret and is enabled, the prior secret is gone
C15_Witness ==
  \E c \in Calls :
    /\ Done(c) /\ req[c].op = "enroll_mfa" /\ req[c].mfa_type = "totp"
    /\ resp[c].kind = "ok" /\ resp[c].success
    /\ \E r \in obs[c].mfa0 : ~r.enabled /\ r.secret \in generated /\ r.secret # obs[c].secret
    /\ Enrollments(impala_mfa, req[c].account_id, "totp") =
         {MfaRow(req[c].account_id, "totp", obs[c].secret, req[c].phone_number, TRUE)}

\* C16: when the query of the enrollment table fails during verifyMfa the
\* call returns InternalError, never a response with success=false or
\* success=true.
C16_MfaStoreFailureIsInternalError ==
  \A c \in Calls :
    (Done(c) /\ req[c].op = "verify_mfa" /\ obs[c].dbFail)
    => /\ resp[c].kind = "err" /\ resp[c].error = "InternalError"
       /\ resp[c] = InternalError("Database error")

\* the query failed for a call that carried the valid code of an enabled enrollment
C16_Witness ==
  \E c \in Calls :
    /\ Done(c) /\ req[c].op = "verify_mfa" /\ obs[c].dbFail
    /\ obs[c].failedAt = "mfa_query"
    /\ \E r \in obs[c].mfa0 :
         r.enabled /\ r.mfa_type = "totp" /\ check_current(r.secret, req[c].code, obs[c].now0)
    /\ resp[c] = InternalError("Database error")

(* ------------------------------------------------------------------ *)
(* MultisigAssetWrapper                                                *)
(* ------------------------------------------------------------------ *)
ExecuteOps == {"execute_unwrap", "execute_transfer"}
TimelockOps == ExecuteOps \cup {"cancel_timelock"}
MultisigFailures == {"Insufficient signers", "Duplicate signer detected", "Signer not authorized"}

\* the list has no duplicates, only signers of the configuration, and at
\* least threshold entries
ValidSigners(signers, cfg) ==
  /\ cfg # NoConfig
  /\ Len(signers) >= cfg.threshold
  /\ \A i, j \in 1..Len(signers) : i # j => signers[i] # signers[j]
  /\ Elements(signers) \subseteq Elements(cfg.signers)

\* the last invocation named a timelock that was already marked executed
OnExecutedTimelock == last.op \in TimelockOps /\ last.executed0

\* no timelock has taken effect twice
AtMostOneEffect == \A i \in 1..Len(history) : history[i].effects <= 1

\* no step removes a timelock or clears its executed flag
ExecutedStays ==
  \A i \in 1..Len(timelocks) :
    /\ i <= Len(timelocks')
    /\ timelocks[i].executed => timelocks'[i].executed

\* an invocation on an executed timelock leaves every balance as it was
ExecutedTimelockMovesNothing ==
  OnExecutedTimelock' => UNCHANGED <<balance, total_wrapped, token_balance>>

\* C17 as stated: a timelock takes effect at most once, its executed flag
\* is never cleared, and every later execute_unwrap, execute_transfer or
\* cancel_timelock on it fails with "Already executed" and changes no balance.
C17_ExecutedTimelockFailsAlreadyExecuted ==
  /\ []AtMostOneEffect
  /\ [][ExecutedStays]_vars
  /\ [](OnExecutedTimelock => last.result = "Already executed")
  /\ [][ExecutedTimelockMovesNothing]_vars

\* the outcome of an invocation on an executed timelock: the checks that
\* precede the executed check in the code speak first
ExecutedTimelockOutcome ==
  OnExecutedTimelock =>
    /\ last.result # Ok
    /\ last.op \in ExecuteOps =>
         last.result = IF last.paused0 THEN "Contract is paused" ELSE "Already executed"
    /\ last.op = "cancel_timelock" =>
         /\ last.result \in MultisigFailures \cup {HostAuth, "Already executed"}
         /\ last.result \in MultisigFailures <=> ~ValidSigners(last.signers, last.config0)

\* C17 amended: a timelock takes effect at most once, its executed flag
\* is never cleared, and every later execute_unwrap, execute_transfer or
\* cancel_timelock on it fails and changes no balance; the failure is
\* "Already executed" unless the contract is paused (execute_unwrap and
\* execute_transfer: "Contract is paused") or the multisig check fails
\* (cancel_timelock).
C17_ExecutedTimelockNeverActsAgain ==
  /\ []AtMostOneEffect
  /\ [][ExecutedStays]_vars
  /\ []ExecutedTimelockOutcome
  /\ [][ExecutedTimelockMovesNothing]_vars

\* a transfer that took effect is executed again and refused, and a
\* cancelled timelock is refused its execution
C17_Witness ==
  /\ last.op = "execute_transfer" /\ last.executed0
  /\ last.result = "Already executed"
  /\ history[last.id + 1].effects = 1

C17_CancelledWitness ==
  /\ last.op = "execute_unwrap" /\ last.executed0
  /\ last.result = "Already executed"
  /\ history[last.id + 1].effects = 0

\* the last invocation was an execution of a timelock whose unlock_time was
\* still ahead of the ledger timestamp
BeforeUnlock == last.op \in ExecuteOps /\ last.early0

\* an execution before unlock_time leaves the whole storage as it was
EarlyExecutionMovesNothing == BeforeUnlock' => UNCHANGED storage

\* a timelock unlocks no sooner than min_lock_duration after it was
\* scheduled and takes effect no sooner than it unlocks
NoEffectBeforeMinLock ==
  \A i \in 1..Len(timelocks) :
    /\ timelocks[i].unlock_time >= history[i].scheduled_at + min_lock_duration
    /\ history[i].effects > 0 => history[i].effect_at >= timelocks[i].unlock_time

\* C18 as stated: execute_unwrap and execute_transfer fail with "Timelock
\* not expired" and change no state whenever the ledger timestamp is less
\* than the timelock's unlock_time, and no scheduled unwrap or transfer
\* takes effect earlier than min_lock_duration seconds after it was scheduled.
C18_EarlyExecutionFailsNotExpired ==
  /\ [](BeforeUnlock => last.result = "Timelock not expired")
  /\ [][EarlyExecutionMovesNothing]_vars
  /\ []NoEffectBeforeMinLock

\* the outcome of an execution before unlock_time: the pause check and
\* the executed check precede the expiry check in the code
EarlyExecutionOutcome ==
  BeforeUnlock =>
    last.result = IF last.paused0 THEN "Contract is paused"
                  ELSE IF last.executed0 THEN "Already executed"
                  ELSE "Timelock not expired"

\* C18 amended: execute_unwrap and execute_transfer fail and change no
\* state whenever the ledger timestamp is less than the timelock's
\* unlock_time; the failure is "Timelock not expired" unless the contract
\* is paused ("Contract is paused") or the timelock was already executed or
\* cancelled ("Already executed"); no scheduled unwrap or transfer takes
\* effect earlier than min_lock_duration seconds after it was scheduled.
C18_EarlyExecutionNeverActs ==
  /\ []EarlyExecutionOutcome
  /\ [][EarlyExecutionMovesNothing]_vars
  /\ []NoEffectBeforeMinLock

\* a pending transfer is executed before its unlock_time and refused
C18_Witness ==
  /\ last.op = "execute_transfer" /\ last.early0
  /\ last.result = "Timelock not expired"
  /\ ~get_timelock(last.id).executed

\* a timelock took effect, min_lock_duration or more after it was scheduled
C18_EffectWitness ==
  \E i \in 1..Len(history) :
    history[i].effects = 1 /\ history[i].effect_at >= history[i].scheduled_at + min_lock_duration

MultisigOps ==
  {"pause", "unpause", "rotate_signers", "wrap", "schedule_unwrap", "schedule_transfer",
   "cancel_timelock"}

\* the last invocation was of a multisig operation, with a signer list
\* that is not a valid one for the configuration it found
InvalidSignerList ==
  last.op \in MultisigOps /\ ~ValidSigners(last.signers, last.config0)

\* a successful multisig operation was called with a valid signer list
SuccessHadValidSigners ==
  (last.op \in MultisigOps /\ last.result = Ok) => ValidSigners(last.signers, last.config0)

\* a failed invocation leaves the whole storage as it was
FailureMovesNothing == last'.result # Ok => UNCHANGED storage

EarlierFailures(op) ==
  CASE op = "rotate_signers" -> {"New signers must not be empty", "Invalid new threshold"}
    [] op \in {"wrap", "schedule_unwrap"} -> {"Contract is paused", "Amount must be positive"}
    [] op = "schedule_transfer" ->
         {"Contract is paused", "Amount must be positive", "Self-transfer not allowed"}
    [] OTHER -> {}

\* an invalid signer list fails: with one of the three multisig errors
\* once verify_multisig is reached on an initialized contract
InvalidSignerListOutcome ==
  InvalidSignerList =>
    /\ last.result # Ok
    /\ last.result \in MultisigFailures \cup EarlierFailures(last.op) \cup {HostUnwrap}
    /\ last.result = HostUnwrap => last.config0 = NoConfig
    /\ last.result = "Contract is paused" => last.paused0

C19_RotationWitness ==
  /\ last.op = "rotate_signers" /\ last.result = Ok
  /\ config # last.config0
  /\ ValidSigners(last.signers, last.config0) /\ ~ValidSigners(last.signers, config)

PausableOps ==
  {"wrap", "schedule_unwrap", "schedule_transfer", "execute_unwrap", "execute_transfer"}

\* the pause flag is set by a successful pause and cleared by a
\* successful unpause, and by nothing else
PauseFlagFollowsPause ==
  /\ (last'.op = "pause" /\ last'.result = Ok /\ last' # last) => paused'
  /\ (last'.op = "unpause" /\ last'.result = Ok /\ last' # last) => ~paused'
  /\ paused' # paused => last'.op \in {"pause", "unpause"} /\ last'.result = Ok

\* the five operations fail while paused, and never for that reason otherwise
PausedBlocks ==
  last.op \in PausableOps => (last.result = "Contract is paused" <=> last.paused0)

\* cancel_timelock of a pending timelock by a valid, authorizing signer
\* list succeeds whether or not the contract is paused
CancelIgnoresPause ==
  ( /\ last.op = "cancel_timelock"
    /\ ValidSigners(last.signers, last.config0) /\ last.result # HostAuth
    /\ HasTimeLock(last.id) /\ ~last.executed0 ) => last.result = Ok

\* C20: while the contract is paused, wrap, schedule_unwrap,
\* schedule_transfer, execute_unwrap and execute_transfer fail with
\* "Contract is paused" and change no state, cancel_timelock still
\* succeeds, and after unpause the five operations are no longer refused.
C20_PauseBlocksAllButCancel ==
  /\ []PausedBlocks
  /\ []CancelIgnoresPause
  /\ [][FailureMovesNothing /\ PauseFlagFollowsPause]_vars

\* an execution of an unlocked, pending timelock is refused while paused
C20_Witness ==
  /\ last.op \in ExecuteOps /\ last.paused0 /\ paused
  /\ HasTimeLock(last.id) /\ ~last.executed0 /\ ~last.early0
  /\ last.result = "Contract is paused"

\* a pending timelock is cancelled while the contract is paused
C20_CancelWitness ==
  /\ last.op = "cancel_timelock" /\ last.paused0 /\ paused
  /\ last.result = Ok /\ get_timelock(last.id).executed

\* after a pause and an unpause a wrap succeeds
C20_UnpausedWitness ==
  /\ ever_paused /\ ~paused
  /\ last.op = "wrap" /\ last.result = Ok

\* a successful rotation has stored the configuration it was asked for, and
\* the configuration changes by initialize and rotate_signers only
RotationInstalls ==
  (last.op = "rotate_signers" /\ last.result = Ok) => config = last.requested

ConfigFollowsRotation ==
  config' # config => last'.op \in {"initialize", "rotate_signers"} /\ last'.result = Ok

\* the last invocation presented a signer that a rotation had removed from
\* the authorized set it found
RetiredSignerPresented ==
  /\ last.op \in MultisigOps
  /\ \E a \in Elements(last.signers) : a \in retired /\ a \notin Elements(last.config0.signers)

\* a list that is valid for the configuration found never fails the
\* multisig check
ValidSignersPass ==
  (last.op \in MultisigOps /\ ValidSigners(last.signers, last.config0))
    => last.result \notin MultisigFailures

\* C21 as stated: after rotate_signers succeeds the authorized set is
\* exactly new_signers with new_threshold, any operation presenting a signer
\* of the old set that is not in the new set fails with "Signer not
\* authorized", and operations presented by the new signers succeed.
C21_RetiredSignerFailsNotAuthorized ==
  /\ []RotationInstalls
  /\ [][ConfigFollowsRotation]_vars
  /\ [](RetiredSignerPresented => last.result = "Signer not authorized")
  /\ []ValidSignersPass

\* the outcome of presenting a retired signer: the checks that precede the
\* membership test in the operation and in verify_multisig speak first
RetiredSignerOutcome ==
  RetiredSignerPresented =>
    /\ last.result # Ok
    /\ last.result \in MultisigFailures \cup EarlierFailures(last.op) \cup {HostAuth}
    /\ ( /\ Len(last.signers) >= last.config0.threshold
         /\ \A i, j \in 1..Len(last.signers) : i # j => last.signers[i] # last.signers[j]
         /\ last.result \notin EarlierFailures(last.op) \cup {HostAuth} )
       => last.result = "Signer not authorized"

\* C21 amended: after rotate_signers succeeds the authorized set is exactly
\* new_signers with new_threshold; any operation presenting a signer of the
\* old set that is not in the new set fails and changes no state, with
\* "Signer not authorized" unless an earlier check fails first (the pause,
\* amount, self-transfer and new-signer checks of the operation, or
\* "Insufficient signers" and "Duplicate signer detected" in verify_multisig);
\* a valid list of the new signers passes the multisig check.
C21_RetiredSignerAlwaysFails ==
  /\ []RotationInstalls
  /\ [][ConfigFollowsRotation /\ FailureMovesNothing]_vars
  /\ []RetiredSignerOutcome
  /\ []ValidSignersPass

\* after a rotation a signer of the old set is refused and one of the new
\* set pauses the contract
C21_Witness ==
  /\ last.op = "pause" /\ last.signers = <<"s1">>
  /\ "s1" \in retired /\ last.config0 = config /\ config.signers = <<"s2", "s3">>
  /\ last.result = "Signer not authorized"

C21_NewSignerWitness ==
  /\ last.op = "pause" /\ last.signers = <<"s3">>
  /\ last.config0.signers = <<"s2", "s3">> /\ "s1" \in retired
  /\ last.result = Ok /\ paused

(* ------------------------------------------------------------------ *)
(* Lockout and rate limiting under concurrency and over time           *)
(* ------------------------------------------------------------------ *)
\* the failure counter of the account is present and at the threshold
LockedNow(account_id) == cache[lockout_key(account_id)].count >= LOCKOUT_THRESHOLD

\* call c, served by authenticate with Redis reachable, compares the
\* password with the stored hash in this step
Compares(c) ==
  /\ req[c].op = "authenticate" /\ ~obs[c].cacheFail
  /\ pc[c] = "auth_cred_query" /\ pc'[c] \in {"auth_clear_conn", "auth_fail_conn"}

\* call c returns action = "authenticated" in this step
ReturnsAuthenticated(c) ==
  /\ req[c].op = "authenticate" /\ ~obs[c].cacheFail
  /\ pc[c] # "done" /\ pc'[c] = "done" /\ resp'[c] = Authenticated

NoComparisonWhileLocked ==
  \A c \in Calls :
    (Compares(c) \/ ReturnsAuthenticated(c)) => ~LockedNow(req[c].account_id)

\* C22: under any interleaving of concurrent authenticate calls for one
\* account, while the account's failure counter is at 5 or more no
\* authenticate call for the account compares a password or returns
\* action = "authenticated".
C22_NoComparisonWhileLocked == [][NoComparisonWhileLocked]_vars

\* what the code does give: a call whose own lockout check read the counter
\* at the threshold returns the lockout response and never reaches the store
LockedAtCheckIsRejected ==
  \A c \in Calls :
    (pc[c] = "auth_lock_get" /\ cacheUp /\ LockedNow(req[c].account_id))
      => pc'[c] \in {"auth_lock_get", "done"} /\ (pc'[c] = "done" => resp'[c] = LockedResponse)

C22_LockedAtCheckIsRejected == [][LockedAtCheckIsRejected]_vars

\* a call passed its lockout check below the threshold and authenticates
\* after a concurrent call has brought the counter to the threshold
C22_RaceWitness ==
  \E c \in Calls :
    /\ pc[c] = "auth_clear_conn" /\ obs[c].lock0 < LOCKOUT_THRESHOLD
    /\ LockedNow(req[c].account_id)

\* the rate counters of the bridge
RateCounters == {rate_key_auth(a) : a \in Accounts} \cup {rate_key_token(a) : a \in Accounts}

\* C23: for any interleaving of concurrent calls to the same rate-limited
\* purpose and subject, at most 2 x 10 calls are admitted in any interval of
\* 60 s and at most 10 between a counter's creation and its expiry (admitted
\* counts the calls admitted since the counter was created; no counter
\* expires while the clock stands, so it also counts those of the interval).
C23_AdmittedWithinMax ==
  \A k \in RateCounters :
    /\ admitted[k] <= 2 * RATE_LIMIT_MAX_REQUESTS
    /\ admitted[k] <= RATE_LIMIT_MAX_REQUESTS

\* what the code does give: every call that read the counter below the
\* maximum is admitted, so a counter admits at most one call more per
\* further call in flight
C23_OvershootWithinConcurrency ==
  \A k \in RateCounters :
    /\ admitted[k] <= RATE_LIMIT_MAX_REQUESTS + NCalls - 1
    /\ admitted[k] <= cache[k].count
    /\ cache[k].count <= RATE_LIMIT_MAX_REQUESTS + NCalls - 1

\* two calls read the counter at 9 and both were admitted
C23_RaceWitness ==
  \E k \in RateCounters :
    /\ admitted[k] > RATE_LIMIT_MAX_REQUESTS
    /\ cache[k].count > RATE_LIMIT_MAX_REQUESTS

\* call c has been answered with RateLimited
Denied(c) == Done(c) /\ RateLimitedPurpose(c) /\ resp[c] = RateLimited

AdmissionRestartsWindow ==
  \A k \in RateCounters :
    admitted'[k] = admitted[k] + 1
      => cache'[k].expireAt = now + RATE_LIMIT_WINDOW_SECS

\* a denied call found a counter that had admitted 10 calls since it was
\* created and that had not run out
DeniedAfterMaxSinceCreation ==
  \A c \in Calls :
    Denied(c) => obs[c].admitted0 >= RATE_LIMIT_MAX_REQUESTS

\* a call that finds 10 admitted since the counter was created is denied
\* however long ago the first of them was
MaxSinceCreationDenied ==
  \A c \in Calls :
    ( /\ Done(c) /\ RateLimitedPurpose(c)
      /\ obs[c].admitted0 >= RATE_LIMIT_MAX_REQUESTS /\ ~obs[c].expired )
    => resp[c] = RateLimited

StepOf(c) == pc'[c] # pc[c]

\* the rate counter that call c is counted under
RateCounterOf(c) ==
  IF req[c].op = "token" THEN rate_key_token(req[c].username)
                         ELSE rate_key_auth(req[c].account_id)

\* call c is at the GET of its rate counter and the counter is at the maximum
AtRateDenial(c) ==
  /\ pc[c] \in {"auth_rate_get", "tok_rate_get"}
  /\ cacheUp /\ cache[RateCounterOf(c)].count >= RATE_LIMIT_MAX_REQUESTS

\* the step that answers call c with RateLimited
RateDenialStep(c) == StepOf(c) /\ pc'[c] = "done" /\ resp'[c] = RateLimited

\* what is stored outside the call: Redis, the credential store, the MFA tables
Stored == <<cache, impala_auth, impala_mfa, sms_store>>

RateDenialMutatesNothing ==
  \A c \in Calls :
    /\ (StepOf(c) /\ AtRateDenial(c)) => RateDenialStep(c)
    /\ RateDenialStep(c) => AtRateDenial(c) /\ UNCHANGED Stored
    /\ (StepOf(c) /\ pc'[c] \in {"auth_rate_conn", "auth_rate_get",
                                 "tok_rate_conn", "tok_rate_get"}) => UNCHANGED Stored

\* C25: a call denied by the rate limiter (counter at 10 or more) mutates
\* nothing: from its arrival to its answer the rate counter and its TTL, the
\* lockout counter and the credential store are as they were, and the
\* answer is given at the rate check, so no later step of authenticate or
\* issueToken runs.
C25_RateDenialMutatesNothing == [][RateDenialMutatesNothing]_vars

\* a call has been denied with its counter at the maximum while another
\* call is in flight
C25_Witness ==
  \E c, d \in Calls :
    /\ Denied(c) /\ ~Idle(d)
    /\ cache[RateCounterOf(c)].count >= RATE_LIMIT_MAX_REQUESTS
    /\ obs[c].rate0 >= RATE_LIMIT_MAX_REQUESTS

\* the awaits of authenticate up to its lockout check
BeforeStoreLabels ==
  {"auth_rate_conn", "auth_rate_get", "auth_rate_incr", "auth_rate_expire",
   "auth_lock_conn", "auth_lock_get"}

\* call c is at the GET of the failure counter and finds the account locked
AtLockout(c) ==
  /\ pc[c] = "auth_lock_get" /\ cacheUp
  /\ cache[lockout_key(req[c].account_id)].count >= LOCKOUT_THRESHOLD

\* the step that answers call c with the lockout response
LockoutStep(c) == StepOf(c) /\ pc'[c] = "done" /\ resp'[c] = LockedResponse

LockoutTouchesNothing ==
  \A c \in Calls :
    /\ (StepOf(c) /\ AtLockout(c)) => LockoutStep(c)
    /\ LockoutStep(c) =>
         /\ AtLockout(c)
         /\ UNCHANGED <<cache, impala_auth, regPw, streak>>
    /\ (StepOf(c) /\ pc'[c] \in BeforeStoreLabels) =>
         /\ pc[c] \in BeforeStoreLabels \cup {"idle", "done"}
         /\ UNCHANGED <<impala_auth, regPw, streak>>
         /\ cache'[lockout_key(req'[c].account_id)] = cache[lockout_key(req'[c].account_id)]

\* a call answered with the lockout response leaves the failure counter, its
\* TTL and the credential as they were when it arrived (seen before the
\* clock moves on)
LockedCallLeftAllAsFound ==
  \A c \in Calls :
    ( /\ Done(c) /\ req[c].op = "authenticate" /\ resp[c] = LockedResponse
      /\ now = obs[c].now0 ) =>
      /\ obs[c].lock0 >= LOCKOUT_THRESHOLD
      /\ cache[lockout_key(req[c].account_id)].count = obs[c].lock0
      /\ cache[lockout_key(req[c].account_id)].expireAt > now
      /\ impala_auth[req[c].account_id] = obs[c].cred0
      /\ streak[req[c].account_id] = obs[c].streak0

\* C26: when authenticate finds the account locked (failure counter present
\* and at 5 or more) it returns the lockout response without reading or
\* writing the credential store, without comparing any password, and
\* without changing the failure counter or its TTL.
C26_LockoutTouchesNothing ==
  /\ [][LockoutTouchesNothing]_vars
  /\ []LockedCallLeftAllAsFound

\* a call with the registered password is answered with the lockout response
C26_Witness ==
  \E c \in Calls :
    /\ Done(c) /\ req[c].op = "authenticate" /\ resp[c] = LockedResponse
    /\ req[c].password = regPw[req[c].account_id]
    /\ cache[lockout_key(req[c].account_id)].count = LOCKOUT_THRESHOLD

(* ------------------------------------------------------------------ *)
(* The credential store                                                *)
(* ------------------------------------------------------------------ *)
\* the step of call c is the registration step of authenticate for account a
RegistrationStep(c, a) ==
  /\ req[c].op = "authenticate" /\ req[c].account_id = a
  /\ pc[c] = "auth_insert" /\ pc'[c] = "done" /\ resp'[c] = Registered

StoreChangesOnlyByRegistration ==
  \A a \in Accounts :
    /\ impala_auth[a] # <<>> => impala_auth'[a] = impala_auth[a]
    /\ impala_auth'[a] # impala_auth[a] =>
         \E c \in Calls :
           /\ RegistrationStep(c, a)
           /\ impala_auth'[a] = <<generate_hash(req[c].password)>>
    /\ (\E c \in Calls : StepOf(c) /\ req'[c].op \notin {"authenticate"})
         => impala_auth' = impala_auth

\* an account has at most one Credential, and an account without an
\* external row has none
OneCredentialPerAccount ==
  \A a \in Accounts :
    /\ Len(impala_auth[a]) <= 1
    /\ a \notin impala_account => impala_auth[a] = <<>>

\* C27: the credential store changes only through authenticate's
\* registration step: a Credential is inserted only when the account has no
\* row, and once it exists no authenticate, issueToken or MFA operation
\* modifies or deletes it (a later authenticate with another password
\* never overwrites the hash, issueToken never creates a Credential for an
\* unknown username).
C27_StoreChangesOnlyByRegistration ==
  /\ [][StoreChangesOnlyByRegistration]_vars
  /\ []OneCredentialPerAccount

\* after a registration, an authenticate with another password, a token
\* request and an MFA enrollment have been answered and the hash stands
C27_Witness ==
  \E c \in Calls :
    /\ Done(c) /\ req[c].op = "authenticate" /\ resp[c] = InvalidCredentials
    /\ impala_auth[req[c].account_id] = <<generate_hash(regPw[req[c].account_id])>>
    /\ req[c].password # regPw[req[c].account_id]

\* two registrations raced and one Credential was stored
C27_RaceWitness ==
  \E c, d \in Calls :
    /\ c # d /\ Done(c) /\ Done(d)
    /\ resp[c] = Registered /\ obs[d].conflict
    /\ req[d].password # req[c].password
    /\ impala_auth[req[c].account_id] = <<generate_hash(req[c].password)>>

\* a token request for a username without a Credential was answered and
\* there is still none
C27_TokenWitness ==
  \E c \in Calls :
    /\ Done(c) /\ req[c].op = "token" /\ req[c].username \in Accounts
    /\ req[c].password.len > 0
    /\ impala_auth[req[c].username] = <<>>

(* ------------------------------------------------------------------ *)
(* The failure counter                                                 *)
(* ------------------------------------------------------------------ *)
\* a finished authenticate call, seen before the clock moves on
JustAnswered(c) == Done(c) /\ req[c].op = "authenticate" /\ now = obs[c].now0

\* a call answered "authenticated" has deleted the failure counter
SuccessDeletesCounter ==
  \A c \in Calls :
    (JustAnswered(c) /\ resp[c] = Authenticated) =>
      cache[lockout_key(req[c].account_id)] = NoEntry

\* between requests the counter holds the wrong-password outcomes since the
\* last success (or since it ran out)
CounterCountsSinceSuccess ==
  Quiescent => \A a \in Accounts : cache[lockout_key(a)].count = streak[a]

\* the lockout response is given only after 5 wrong-password outcomes
\* without a success between them
LockedOnlyAfterFiveSinceSuccess ==
  \A c \in Calls :
    (Done(c) /\ req[c].op = "authenticate" /\ resp[c] = LockedResponse) =>
      obs[c].streak0 >= LOCKOUT_THRESHOLD

\* C28: a successful password verification (action = "authenticated")
\* deletes the account's failure counter, so only the failures recorded
\* since the last success count toward lockout: up to 4 failures, then a
\* success, then 4 more failures do not lock the account.
C28_SuccessClearsFailures ==
  /\ SuccessDeletesCounter
  /\ CounterCountsSinceSuccess
  /\ LockedOnlyAfterFiveSinceSuccess

\* a success arrives after 4 recorded failures and leaves no counter
C28_Witness ==
  \E c \in Calls :
    /\ JustAnswered(c) /\ resp[c] = Authenticated
    /\ obs[c].lock0 = LOCKOUT_THRESHOLD - 1
    /\ cache[lockout_key(req[c].account_id)] = NoEntry

\* the tenth call of the window is the fourth failure since a success and
\* finds the account unlocked
C28_FourMoreWitness ==
  \E c \in Calls :
    /\ JustAnswered(c) /\ resp[c] = InvalidCredentials
    /\ obs[c].admitted0 = RATE_LIMIT_MAX_REQUESTS - 1
    /\ obs[c].streak0 = LOCKOUT_THRESHOLD - 2
    /\ cache[lockout_key(req[c].account_id)].count = LOCKOUT_THRESHOLD - 1

\* a finished call whose password did not verify against the Credential,
\* with Redis reachable throughout, seen before the clock moves on
RecordedFailure(c) ==
  /\ JustAnswered(c) /\ resp[c] = InvalidCredentials
  /\ obs[c].cred0 # <<>> /\ ~obs[c].cacheFail

\* C29: every wrong-password authenticate outcome increments the account's
\* failure counter by one and resets its TTL to 15 minutes, so the counter
\* expires 15 minutes after the most recent recorded failure, not 15
\* minutes after the first one.
C29_FailureCountsAndRestartsTtl ==
  /\ \A c \in Calls :
       RecordedFailure(c) =>
         /\ cache[lockout_key(req[c].account_id)].count = obs[c].lock0 + 1
         /\ cache[lockout_key(req[c].account_id)].expireAt = now + LOCKOUT_DURATION_SECS
  /\ \A a \in Accounts :
       (Quiescent /\ cache[lockout_key(a)].count > 0) =>
         /\ now < cache[lockout_key(a)].expireAt
         /\ cache[lockout_key(a)].expireAt <= now + LOCKOUT_DURATION_SECS

\* 15 minutes after the first failure the counter still stands, because a
\* second failure was recorded 450 s after the first
C29_Witness ==
  /\ now >= StartTime + LOCKOUT_DURATION_SECS
  /\ cache[lockout_key("acct")].count >= 2
  /\ cache[lockout_key("acct")].expireAt > now
  /\ \E c \in Calls : Done(c) /\ req[c].op = "authenticate"
                      /\ resp[c] = InvalidCredentials /\ obs[c].lock0 >= 1
                      /\ obs[c].now0 < now

\* the outcome that the checks of authenticate, taken in their order
\* against what call c found on arrival, decide
FirstFailingCheck(c) ==
  LET a == req[c].account_id IN
  IF obs[c].rate0 >= RATE_LIMIT_MAX_REQUESTS THEN RateLimited
  ELSE IF obs[c].lock0 >= LOCKOUT_THRESHOLD THEN LockedResponse
  ELSE IF req[c].password.len < MIN_PASSWORD_LENGTH THEN TooShortResponse
  ELSE IF a \notin impala_account THEN InvalidCredentials
  ELSE IF obs[c].cred0 = <<>> THEN Registered
  ELSE IF verify_password(req[c].password, Head(obs[c].cred0)) THEN Authenticated
  ELSE InvalidCredentials

ChecksInOrder ==
  \A c \in Calls :
    (Done(c) /\ req[c].op = "authenticate") =>
      /\ ~obs[c].dbFail => resp[c] = FirstFailingCheck(c)
      /\ obs[c].dbFail =>
           /\ resp[c] = InternalError("Database error")
           /\ FirstFailingCheck(c) \notin {RateLimited, LockedResponse, TooShortResponse}

\* a call answered with the length message left the failure counter and the
\* credential as it found them
ShortPasswordTouchesNothing ==
  \A c \in Calls :
    (Done(c) /\ req[c].op = "authenticate" /\ resp[c] = TooShortResponse) =>
      /\ cache[lockout_key(req[c].account_id)].count = obs[c].lock0
      /\ impala_auth[req[c].account_id] = obs[c].cred0
      /\ ~obs[c].dbFail

\* the length message is given at the end of the lockout check, before any
\* query of the store, in a step that changes neither Redis nor the store
LengthDecidedBeforeStore ==
  \A c \in Calls :
    (StepOf(c) /\ pc'[c] = "done" /\ resp'[c] = TooShortResponse) =>
      /\ pc[c] \in {"auth_lock_conn", "auth_lock_get"}
      /\ UNCHANGED Stored

\* C30: authenticate evaluates its checks in the fixed order rate limit,
\* lockout, password length, external-account existence, credential lookup,
\* and the first failing check decides the outcome: a password shorter than
\* 8 characters returns the length message without touching the credential
\* store or the failure counter, and a locked account receives the lockout
\* message even when the password is too short.
C30_ChecksInOrder ==
  /\ []ChecksInOrder
  /\ []ShortPasswordTouchesNothing
  /\ [][LengthDecidedBeforeStore /\ LockoutTouchesNothing]_vars

\* a locked account is sent a too-short password and gets the lockout message
C30_Witness ==
  \E c \in Calls :
    /\ Done(c) /\ req[c].op = "authenticate"
    /\ req[c].password.len < MIN_PASSWORD_LENGTH
    /\ obs[c].lock0 >= LOCKOUT_THRESHOLD /\ obs[c].rate0 < RATE_LIMIT_MAX_REQUESTS
    /\ resp[c] = LockedResponse

\* a too-short password for an account without external row gets the length message
C30_ShortWitness ==
  \E c \in Calls :
    /\ Done(c) /\ req[c].op = "authenticate"
    /\ req[c].account_id \notin impala_account
    /\ resp[c] = TooShortResponse

\* a locked account at the rate limit gets RateLimited
C30_RateFirstWitness ==
  \E c \in Calls :
    /\ Done(c) /\ req[c].op = "authenticate"
    /\ obs[c].lock0 >= LOCKOUT_THRESHOLD /\ obs[c].rate0 >= RATE_LIMIT_MAX_REQUESTS
    /\ resp[c] = RateLimited

(* ------------------------------------------------------------------ *)
(* Tokens                                                              *)
(* ------------------------------------------------------------------ *)
\* the step in which call c is served by the refresh flow of issueToken
RefreshStep(c) ==
  /\ Idle(c) /\ req'[c].op = "token" /\ req'[c].refresh_token # NoToken

RefreshFlowTouchesNothing ==
  \A c \in Calls :
    RefreshStep(c) =>
      /\ UNCHANGED <<Stored, admitted, streak, regPw>>
      /\ pc'[c] = "done"
      /\ resp'[c] = RefreshFlow(req'[c].refresh_token, now)

\* a presented token that a refresh flow may exchange at time t
Exchangeable(token, t) ==
  /\ decode_ok(token, JWT_SECRET, t)
  /\ token.claims.token_type = TOKEN_TYPE_REFRESH

ExchangeableIsExchanged ==
  \A c \in Calls :
    (RefreshFlowCall(c) /\ Exchangeable(req[c].refresh_token, now)) =>
      /\ resp[c].kind = "ok" /\ resp[c].success
      /\ resp[c].temporal_token =
           encode(temporal_claims(req[c].refresh_token.claims.sub, now), JWT_SECRET)

\* C31: the refresh-token exchange of issueToken depends only on the
\* presented token, the signing secret and the current time: it reads and
\* writes neither the credential store, the rate counters nor the lockout
\* counter, so a refresh token stays exchangeable until its expiry whatever
\* happens later to the account's Credential, rate or lockout state.
C31_RefreshFlowIsPure ==
  /\ [][RefreshFlowTouchesNothing]_vars
  /\ []ExchangeableIsExchanged

\* a refresh token of an account that is locked out and at the rate limit
\* of the password flow is exchanged
C31_Witness ==
  \E c \in Calls :
    /\ RefreshFlowCall(c) /\ req[c].refresh_token.claims.sub = "acct"
    /\ resp[c].kind = "ok" /\ resp[c].success
    /\ cache[lockout_key("acct")].count >= LOCKOUT_THRESHOLD
    /\ cache[rate_key_token("acct")].count >= RATE_LIMIT_MAX_REQUESTS

\* a refresh token whose subject has no Credential is exchanged
C31_NoCredentialWitness ==
  \E c \in Calls :
    /\ RefreshFlowCall(c) /\ resp[c].kind = "ok" /\ resp[c].success
    /\ impala_auth[req[c].refresh_token.claims.sub] = <<>>

(* ------------------------------------------------------------------ *)
(* MFA enrollment and verification                                     *)
(* ------------------------------------------------------------------ *)
\* C32: every MfaEnrollment row written by enrollMfa carries a secret only
\* when method = totp and a phone_number only when method = sms: a totp
\* row's phone_number is empty and an sms row's secret is empty, whatever
\* optional fields the request carried.
C32_RowFieldsMatchMethod ==
  \A r \in impala_mfa :
    /\ r.mfa_type = "totp" => r.phone_number = NoPhone
    /\ r.mfa_type = "sms" => r.secret = NoSecret

\* what the code does give: an sms row has a phone_number and no secret, a
\* totp row has a secret, and every row has the phone_number of the request
\* that wrote it
C32_SecretOnlyForTotp ==
  \A r \in impala_mfa :
    /\ r.mfa_type \in {"totp", "sms"}
    /\ r.mfa_type = "sms" => r.secret = NoSecret /\ r.phone_number # NoPhone
    /\ r.mfa_type = "totp" => r.secret \in generated

\* a totp enrollment that carried a phone_number stored it
C32_TotpPhoneWitness ==
  \E c \in Calls :
    /\ Done(c) /\ req[c].op = "enroll_mfa" /\ req[c].mfa_type = "totp"
    /\ req[c].phone_number # NoPhone /\ resp[c].kind = "ok" /\ resp[c].success
    /\ \E r \in impala_mfa : r.mfa_type = "totp" /\ r.phone_number = req[c].phone_number

(* ------------------------------------------------------------------ *)
(* MultisigAssetWrapper: supply and the kinds of timelock              *)
(* ------------------------------------------------------------------ *)
RECURSIVE SumOver(_, _)
\* the sum of f over the set of addresses
SumOver(f, addresses) ==
  IF addresses = {} THEN 0
  ELSE LET a == CHOOSE x \in addresses : TRUE IN f[a] + SumOver(f, addresses \ {a})

\* the wrapped balances add up to the recorded supply and none is negative
SupplyMatchesBalances ==
  /\ total_wrapped = SumOver(balance, DOMAIN balance)
  /\ \A a \in DOMAIN balance : balance[a] >= 0

\* what each entry point does to the balances and the supply
SupplyMoves ==
  LET moved == SumOver(balance', DOMAIN balance) - SumOver(balance, DOMAIN balance) IN
  /\ (last'.op = "wrap" /\ last'.result = Ok /\ last' # last)
       => moved = 1 /\ total_wrapped' = total_wrapped + 1
  /\ last'.op = "execute_transfer" => moved = 0 /\ total_wrapped' = total_wrapped
  /\ last'.op \in {"schedule_unwrap", "schedule_transfer", "cancel_timelock", "pause",
                   "unpause", "rotate_signers"}
       => balance' = balance /\ total_wrapped' = total_wrapped
  /\ last'.op = "execute_unwrap" => moved = total_wrapped' - total_wrapped /\ moved <= 0

\* C33: in every state reachable through the MultisigAssetWrapper operations
\* total_supply equals the sum of all per-address wrapped balances and no
\* balance is negative: wrap raises both by amount, execute_unwrap lowers
\* both by amount, execute_transfer moves amount between two balances and
\* leaves total_supply unchanged, and schedule_*, cancel_timelock, pause,
\* unpause and rotate_signers change neither.
C33_SupplyEqualsBalances ==
  /\ []SupplyMatchesBalances
  /\ [][SupplyMoves]_vars

\* the balances exceed the supply after execute_transfer ran on a timelock
\* whose sender is its recipient
C33_MintWitness ==
  /\ last.op = "execute_transfer" /\ last.result = Ok
  /\ get_timelock(last.id).sender = get_timelock(last.id).recipient
  /\ SumOver(balance, DOMAIN balance) > total_wrapped

\* the entry point that the timelock's operation_type names
ExecutorOf(timelock) ==
  IF timelock.operation_type = 1 THEN "execute_unwrap" ELSE "execute_transfer"

\* this step is an execute invocation on a timelock of the other kind
CrossedExecution ==
  /\ last' # last /\ last'.op \in {"execute_unwrap", "execute_transfer"}
  /\ last'.id # NoId /\ HasTimeLock(last'.id)
  /\ ExecutorOf(get_timelock(last'.id)) # last'.op

KindsNeverCross ==
  CrossedExecution =>
    /\ last'.result # Ok
    /\ balance' = balance /\ total_wrapped' = total_wrapped

\* C34: a timelock created by schedule_unwrap (operation_type 1) can take
\* effect only through execute_unwrap, and one created by schedule_transfer
\* (operation_type 2) only through execute_transfer; invoking the other
\* execute entry point on it fails and changes no balance.
C34_KindsNeverCross == [][KindsNeverCross]_vars

\* what the code does give: the two schedule entry points record the kind
SchedulesRecordTheKind ==
  \A i \in 1..Len(timelocks) :
    /\ timelocks[i].operation_type \in {1, 2}
    /\ timelocks[i].operation_type = 1 => timelocks[i].sender = timelocks[i].recipient
    /\ timelocks[i].operation_type = 2 => timelocks[i].sender # timelocks[i].recipient

C34_SchedulesRecordTheKind == SchedulesRecordTheKind

\* execute_transfer has taken effect on a timelock of schedule_unwrap
C34_CrossWitness ==
  /\ last.op = "execute_transfer" /\ last.result = Ok
  /\ get_timelock(last.id).operation_type = 1
  /\ get_timelock(last.id).executed
  /\ history[last.id + 1].effects = 1

(* ------------------------------------------------------------------ *)
(* Counters and their expiry                                           *)
(* ------------------------------------------------------------------ *)
\* the counters that authenticate and issueToken keep in Redis
Counters == RateCounters \cup {lockout_key(a) : a \in Accounts}

\* C35: every rate counter and failure counter present in the cache carries
\* a TTL: no sequence of operations, including a cache error between the
\* increment step and the expire step, leaves a counter without expiry
\* (seen when no call is in flight).
C35_EveryCounterHasTtl ==
  Quiescent => \A k \in Counters : cache[k].count > 0 => cache[k].expireAt # NoExpiry

\* the account is locked by a failure counter that never expires: the clock
\* has run to its end and the counter stands
C35_LockedForeverWitness ==
  /\ Quiescent /\ now = MaxTime
  /\ cache[lockout_key("acct")].count >= LOCKOUT_THRESHOLD
  /\ cache[lockout_key("acct")].expireAt = NoExpiry
  /\ \E c \in Calls : Done(c) /\ resp[c] = LockedResponse /\ obs[c].now0 = MaxTime

\* the account is locked and the call that locked it has returned
LockedAtRest(a) ==
  /\ LockedNow(a)
  /\ \A c \in Calls : pc[c] \notin {"auth_fail_incr", "auth_fail_expire"}

\* while the account is locked no step changes its failure counter or the
\* counter's TTL; the only change is Redis dropping the counter when the
\* TTL has run out
LockedCounterOnlyRunsOut ==
  \A a \in Accounts :
    LockedAtRest(a) =>
      \/ cache'[lockout_key(a)] = cache[lockout_key(a)]
      \/ /\ cache'[lockout_key(a)] = NoEntry
         /\ now' >= cache[lockout_key(a)].expireAt

\* the counter of a locked account runs out within 15 minutes
LockRunsOutWithinDuration ==
  \A a \in Accounts :
    LockedAtRest(a) =>
      /\ now < cache[lockout_key(a)].expireAt
      /\ cache[lockout_key(a)].expireAt <= now + LOCKOUT_DURATION_SECS

\* a call with the registered password that finds no lock and is admitted
\* by the rate limiter is authenticated
CorrectPasswordAuthenticates ==
  \A c \in Calls :
    ( /\ Done(c) /\ req[c].op = "authenticate"
      /\ obs[c].cred0 # <<>> /\ req[c].password = obs[c].regPw0
      /\ obs[c].lock0 < LOCKOUT_THRESHOLD
      /\ obs[c].rate0 < RATE_LIMIT_MAX_REQUESTS ) =>
      resp[c] = Authenticated

\* C36: a locked account always unlocks: calls rejected for lockout record
\* no failure and do not refresh the TTL, so with no authenticate call in
\* flight at the moment of locking the failure counter expires 15 minutes
\* after the last recorded failure however many authenticate calls are made
\* while locked, after which a correct password authenticates.
C36_LockedAccountUnlocks ==
  /\ [][LockedCounterOnlyRunsOut]_vars
  /\ [](LockRunsOutWithinDuration /\ CorrectPasswordAuthenticates)

\* a call was rejected for lockout 450 s after the failures that locked the
\* account; 900 s after them the counter is gone and the registered
\* password is authenticated
C36_Witness ==
  \E c, d \in Calls :
    /\ Done(d) /\ resp[d] = LockedResponse /\ obs[d].now0 = StartTime + TickSecs
    /\ Done(c) /\ resp[c] = Authenticated /\ obs[c].now0 = StartTime + LOCKOUT_DURATION_SECS
    /\ obs[c].lock0 = 0 /\ now = obs[c].now0

\* rate counter k is at the maximum and the call that brought it there has
\* sent its EXPIRE
FullAtRest(k) ==
  /\ cache[k].count >= RATE_LIMIT_MAX_REQUESTS
  /\ \A c \in Calls : pc[c] \notin {"auth_rate_incr", "auth_rate_expire",
                                    "tok_rate_incr", "tok_rate_expire"}

\* while a rate counter is at the maximum no step changes it or its TTL;
\* the only change is Redis dropping it when the TTL has run out
FullCounterOnlyRunsOut ==
  \A k \in RateCounters :
    FullAtRest(k) =>
      \/ cache'[k] = cache[k]
      \/ cache'[k] = NoEntry /\ now' >= cache[k].expireAt

\* a full counter runs out within one window
FullCounterRunsOutWithinWindow ==
  \A k \in RateCounters :
    FullAtRest(k) =>
      /\ now < cache[k].expireAt
      /\ cache[k].expireAt <= now + RATE_LIMIT_WINDOW_SECS

\* a call that finds no counter, or one below the maximum, is not RateLimited
BelowMaxAllowed ==
  \A c \in Calls :
    (Done(c) /\ RateLimitedPurpose(c) /\ obs[c].rate0 < RATE_LIMIT_MAX_REQUESTS) =>
      resp[c] # RateLimited

\* C37: a rate-limited subject is always admitted again: denied calls do
\* not refresh the counter's TTL, so the counter expires 60 seconds after
\* the last admitted call however many denied calls arrive in between, and
\* the first call after expiry is Allowed.
C37_RateLimitedIsReadmitted ==
  /\ [][FullCounterOnlyRunsOut]_vars
  /\ [](FullCounterRunsOutWithinWindow /\ BelowMaxAllowed)

\* a call was denied 50 s after the tenth admission; 50 s later the counter
\* is gone and a call of the same purpose is let through
C37_Witness ==
  \E c, d \in Calls :
    /\ Denied(d) /\ obs[d].now0 = StartTime + RATE_LIMIT_MAX_REQUESTS * GapSecs
    /\ Done(c) /\ req[c].op = req[d].op /\ RateLimitedPurpose(c)
    /\ obs[c].now0 = obs[d].now0 + GapSecs /\ obs[c].rate0 = 0
    /\ resp[c] # RateLimited /\ now = obs[c].now0

(* ------------------------------------------------------------------ *)
(* The two token types                                                 *)
(* ------------------------------------------------------------------ *)
\* a finished request for a protected route
ProtectedCall(c) == Done(c) /\ req[c].op = "protected"

\* the extractor lets a request through only on a temporal token
BearerOnlyTemporal ==
  \A c \in Calls :
    (ProtectedCall(c) /\ resp[c].kind = "user") =>
      /\ req[c].authorization # NoToken
      /\ req[c].authorization.claims.token_type = TOKEN_TYPE_TEMPORAL
      /\ resp[c].account_id = req[c].authorization.claims.sub

\* issueToken mints a token from a presented token only when that token is
\* a refresh token, and what it mints is a temporal token
MintsOnlyFromRefresh ==
  \A c \in Calls :
    (RefreshFlowCall(c) /\ IssuedTokens(c) # {}) =>
      /\ req[c].refresh_token.claims.token_type = TOKEN_TYPE_REFRESH
      /\ \A tok \in IssuedTokens(c) : tok.claims.token_type = TOKEN_TYPE_TEMPORAL

\* C38: the two token types are never interchangeable: a token is accepted
\* as an API bearer credential only if its token_type is "temporal" (a valid
\* refresh token yields Unauthorized there), and issueToken mints a token
\* from a presented token only if its token_type is "refresh", so a temporal
\* token can never be used to obtain another token.
C38_TokenTypesNotInterchangeable == BearerOnlyTemporal /\ MintsOnlyFromRefresh

\* the refresh token the server has just issued is presented as a bearer
\* credential and refused
C38_Witness ==
  /\ ProtectedCall(2) /\ resp[2] = Unauthorized
  /\ req[2].authorization \in IssuedTokens(1)
  /\ req[2].authorization.claims.token_type = TOKEN_TYPE_REFRESH
  /\ decode_ok(req[2].authorization, JWT_SECRET, now)

\* the temporal token the server has just issued is presented to issueToken
\* and refused, and it is accepted as a bearer credential
C38_TemporalWitness ==
  \E tok \in IssuedTokens(1) :
    /\ tok.claims.token_type = TOKEN_TYPE_TEMPORAL
    /\ \/ RefreshFlowCall(2) /\ req[2].refresh_token = tok /\ resp[2] = InvalidTokenType
       \/ ProtectedCall(2) /\ req[2].authorization = tok /\ resp[2].kind = "user"

(* ------------------------------------------------------------------ *)
(* The password flow of issueToken and the lockout counter             *)
(* ------------------------------------------------------------------ *)
\* the step is one of an issueToken call on connection c (its arrival included)
TokenCallStep(c) ==
  /\ req'[c].op = "token"
  /\ <<pc[c], req[c], resp[c]>> # <<pc'[c], req'[c], resp'[c]>>

\* no step of issueToken changes a failure counter or its TTL
TokenFlowKeepsLockout ==
  \A c \in Calls :
    TokenCallStep(c) =>
      \A a \in Accounts : cache'[lockout_key(a)] = cache[lockout_key(a)]

\* a wrong password given to issueToken leaves the failure counter as found
WrongPasswordNotRecorded ==
  \A c \in Calls :
    ( /\ PasswordFlowCall(c) /\ resp[c] = TokenInvalidCredentials
      /\ req[c].username \in Accounts ) =>
      cache[lockout_key(req[c].username)].count = obs[c].lock0

\* the registered password is issued a refresh token whatever the failure
\* counter holds, when the rate limiter admits the call and the store answers
CorrectPasswordIssuedWhateverLock ==
  \A c \in Calls :
    ( /\ PasswordFlowCall(c) /\ req[c].username \in Accounts
      /\ obs[c].cred0 # <<>> /\ req[c].password = obs[c].regPw0
      /\ obs[c].rate0 < RATE_LIMIT_MAX_REQUESTS /\ ~obs[c].dbFail ) =>
      /\ resp[c].kind = "ok" /\ resp[c].success
      /\ resp[c].refresh_token = encode(refresh_claims(req[c].username, now), JWT_SECRET)

\* C39: the issueToken password flow never reads or writes the lockout
\* counter: wrong passwords submitted via issueToken are not recorded as
\* failures, and an account locked by authenticate is still issued a
\* refresh token when the password is correct.
C39_PasswordFlowIgnoresLockout ==
  /\ [][TokenFlowKeepsLockout]_vars
  /\ [](WrongPasswordNotRecorded /\ CorrectPasswordIssuedWhateverLock)

\* the account is locked and the password flow issues a refresh token
C39_Witness ==
  \E c \in Calls :
    /\ PasswordFlowCall(c) /\ resp[c].kind = "ok" /\ resp[c].success
    /\ resp[c].refresh_token # NoToken
    /\ obs[c].lock0 >= LOCKOUT_THRESHOLD
    /\ cache[lockout_key(req[c].username)].count >= LOCKOUT_THRESHOLD

\* a wrong password through issueToken with 4 failures on record leaves 4
C39_WrongPasswordWitness ==
  \E c \in Calls :
    /\ PasswordFlowCall(c) /\ resp[c] = TokenInvalidCredentials
    /\ obs[c].cred0 # <<>> /\ req[c].password # obs[c].regPw0
    /\ obs[c].lock0 = LOCKOUT_THRESHOLD - 1
    /\ cache[lockout_key(req[c].username)].count = LOCKOUT_THRESHOLD - 1

(* ------------------------------------------------------------------ *)
(* TOTP verification                                                   *)
(* ------------------------------------------------------------------ *)
\* the step is one of a verifyMfa call for method totp on connection c (its
\* arrival included)
TotpVerifyStep(c) ==
  /\ req'[c].op = "verify_mfa" /\ req'[c].mfa_type = "totp"
  /\ <<pc[c], req[c], resp[c]>> # <<pc'[c], req'[c], resp'[c]>>

\* no step of a TOTP verification changes the enrollment table, Redis or
\* the credential store
TotpVerifyMutatesNothing ==
  \A c \in Calls :
    TotpVerifyStep(c) => UNCHANGED <<impala_mfa, sms_store, cache, impala_auth>>

\* a finished TOTP verification of code against the enabled enrollment with secret
TotpVerified(c, secret) ==
  /\ Done(c) /\ req[c].op = "verify_mfa" /\ req[c].mfa_type = "totp"
  /\ req[c].code # EmptyCode /\ now = obs[c].now0
  /\ \E r \in obs[c].mfa0 : r.enabled /\ r.secret = secret /\ secret # NoSecret

\* whatever was verified before, the code of a step within one step of the
\* current one is accepted and any other code is rejected
AcceptedWheneverInWindow ==
  \A c \in Calls : \A secret \in Secrets :
    TotpVerified(c, secret) =>
      resp[c] = (IF \E d \in {0 - TOTP_SKEW, 0, TOTP_SKEW} :
                      req[c].code = generate(secret, current_step(now) + d)
                   THEN MfaVerified ELSE InvalidCode)

\* C40: verifyMfa for method=totp mutates neither the enrollment store nor
\* the cache: a valid TOTP code is accepted every time it is submitted while
\* its time step is within one step of the current step (no replay
\* protection, no attempt counter), and a rejected code changes no state.
C40_TotpVerifyIsStateless ==
  /\ [][TotpVerifyMutatesNothing]_vars
  /\ []AcceptedWheneverInWindow

\* one code is accepted twice, 60 s apart: at the step before its own and
\* at the step after it
C40_Witness ==
  /\ Done(1) /\ Done(2) /\ resp[1] = MfaVerified /\ resp[2] = MfaVerified
  /\ req[1].code = req[2].code
  /\ obs[2].now0 = obs[1].now0 + 2 * TOTP_STEP_SECS

\* a code two steps old is rejected and the enrollment stays enabled
C40_RejectedWitness ==
  \E c \in Calls : \E r \in impala_mfa :
    /\ Done(c) /\ req[c].op = "verify_mfa" /\ resp[c] = InvalidCode
    /\ req[c].code = generate(r.secret, current_step(now) - 2)
    /\ r.account_id = req[c].account_id /\ r.mfa_type = "totp" /\ r.enabled

====
